---- MODULE Spec2Model ----
(***************************************************************************)
(* URL shortener: the cache-aside read/write path of the handlers          *)
(* (ShortenURL, RedirectURL, GetURLStats, HealthCheck), the Redis cache    *)
(* layer, the urls table, and the click-accounting goroutine.              *)
(*                                                                         *)
(* Strings are sequences of character codes.  Time is counted in minutes.  *)
(***************************************************************************)
EXTENDS Integers, Sequences, FiniteSets, TLC

\* ------------------------------------------------------------------ bounds

\* Largest number of Redirect requests accepted in one behaviour.
MaxRedirects == 3
\* Largest number of click-accounting goroutines in flight at once.
MaxTasks == 2
\* Largest number of clock advances in one behaviour.
MaxTicks == 2

\* Request slots: the requests that can be in a handler at once.
Procs == {1, 2}

\* ------------------------------------------------------------- characters

Colon == 58
Slash == 47

IsLower(c) == c >= 97 /\ c <= 122
IsUpper(c) == c >= 65 /\ c <= 90
IsDigit(c) == c >= 48 /\ c <= 57
IsAlnum(c) == IsLower(c) \/ IsUpper(c) \/ IsDigit(c)

\* "abcdefghijklmnopqrstuvwxyzABCDEFGHIJKLMNOPQRSTUVWXYZ0123456789"
charset ==
  [i \in 1..62 |-> IF i <= 26 THEN 96 + i
                   ELSE IF i <= 52 THEN 64 + (i - 26)
                   ELSE 47 + (i - 52)]

shortCodeLength == 6

\* ------------------------------------------------------------- code generator

\* The draws of the random source used by the model: each is the sequence of
\* indices rand.Int returns in one call of GenerateShortCode.
RandomDraws ==
  { [i \in 1..shortCodeLength |-> 0],
    [i \in 1..shortCodeLength |-> IF i = shortCodeLength THEN 61 ELSE 26] }

\* GenerateShortCode for a loop that stops one position short.
GenerateShortCodeShort(draw) ==
  [i \in 1..(shortCodeLength - 1) |-> charset[draw[i] + 1]]


\* GenerateShortCode: shortCode[i] = charset[randomIndex] for each position.
GenerateShortCode(draw) ==
  [i \in 1..shortCodeLength |-> charset[draw[i] + 1]]

Codes == { GenerateShortCode(d) : d \in RandomDraws }

\* ------------------------------------------------------------------- URLs

\* "a://Aa" and "a://BB" have the same hashString value and "a://Ab" another;
\* "Aa" has no scheme and "a:Aa" no host.
UrlAa   == <<97, Colon, Slash, Slash, 65, 97>>
UrlBB   == <<97, Colon, Slash, Slash, 66, 66>>
UrlAb   == <<97, Colon, Slash, Slash, 65, 98>>
UrlBare == <<65, 97>>
UrlOpaque == <<97, Colon, 65, 97>>

ValidUrls == {UrlAa, UrlBB, UrlAb}
Urls == ValidUrls \cup {UrlBare, UrlOpaque}

\* url.Parse's scheme scan: the length of the scheme, 0 when there is none.
RECURSIVE SchemeEnd(_, _)
SchemeEnd(s, i) ==
  IF i > Len(s) THEN 0
  ELSE IF IsLower(s[i]) \/ IsUpper(s[i]) THEN SchemeEnd(s, i + 1)
  ELSE IF s[i] = Colon THEN i - 1
  ELSE IF i > 1 /\ (IsDigit(s[i]) \/ s[i] \in {43, 45, 46}) THEN SchemeEnd(s, i + 1)
  ELSE 0

UrlScheme(s) == SubSeq(s, 1, SchemeEnd(s, 1))

\* What follows "scheme:".
UrlRest(s) ==
  IF SchemeEnd(s, 1) = 0 THEN s ELSE SubSeq(s, SchemeEnd(s, 1) + 2, Len(s))

RECURSIVE UpToSlash(_, _)
UpToSlash(s, i) ==
  IF i > Len(s) \/ s[i] = Slash THEN <<>> ELSE <<s[i]>> \o UpToSlash(s, i + 1)

\* The authority after "//", up to the next "/"; empty without "//".
UrlHost(s) ==
  LET r == UrlRest(s)
  IN IF Len(r) >= 2 /\ r[1] = Slash /\ r[2] = Slash THEN UpToSlash(r, 3) ELSE <<>>

\* isValidURL without the check of the host.
isValidURLSchemeOnly(str) == UrlScheme(str) /= <<>>


isValidURL(str) == UrlScheme(str) /= <<>> /\ UrlHost(str) /= <<>>

\* ---------------------------------------------------------------- hashing

\* uint32 arithmetic on two 16-bit limbs <<hi, lo>>: hash*31 + c mod 2^32.
HashStep(h, c) ==
  LET lo == h[2] * 31 + c
      hi == h[1] * 31 + (lo \div 65536)
  IN <<hi % 65536, lo % 65536>>

RECURSIVE HashFrom(_, _, _)
HashFrom(s, i, h) ==
  IF i > Len(s) THEN h ELSE HashFrom(s, i + 1, HashStep(h, s[i]))

HexDigit(n) == IF n < 10 THEN 48 + n ELSE 87 + n

RECURSIVE HexDigits(_)
HexDigits(n) ==
  IF n < 16 THEN <<HexDigit(n)>> ELSE HexDigits(n \div 16) \o <<HexDigit(n % 16)>>

RECURSIVE Pad4(_)
Pad4(ds) == IF Len(ds) >= 4 THEN ds ELSE Pad4(<<48>> \o ds)

\* fmt.Sprintf("%x", hash): lower-case hex without leading zeros.
FormatHex(h) ==
  IF h[1] = 0 THEN HexDigits(h[2]) ELSE HexDigits(h[1]) \o Pad4(HexDigits(h[2]))

hashString(s) == FormatHex(HashFrom(s, 1, <<0, 0>>))

\* ------------------------------------------------------------------ state

VARIABLES
  RedisClient,  \* TRUE: the client handle is set; FALSE: it is nil
  redis,        \* the Redis keyspace: key -> [val, exp]
  urls,         \* the urls table: the sequence of rows in id order
  now,          \* the wall clock, in minutes
  ticks,        \* how many times the clock has advanced
  req,          \* per request slot: the handler's position and locals
  tasks,        \* the click-accounting goroutines
  hist,         \* the last two responses sent, oldest first
  served,       \* per short code: click-accounting goroutines dispatched
  ref           \* the store-only reference model's table

vars == <<RedisClient, redis, urls, now, ticks, req, tasks, hist, served, ref>>

\* ------------------------------------------------------------------ records

\* A nil *time.Time.
NoTime == -1
\* A Redis key stored without a time-to-live.
NoExpiry == -1

\* Minutes.
StatsCacheTTL == 5
DefaultCacheTTL == 24 * 60
Day == 24 * 60

\* models.URL (DeletedAt is never set and is left out).
URL(id, created, updated, original, code, clicks, expires) ==
  [ID |-> id, CreatedAt |-> created, UpdatedAt |-> updated,
   OriginalURL |-> original, ShortCode |-> code, ClickCount |-> clicks,
   ExpiresAt |-> expires]

\* The zero value of models.URL.
ZeroURL == URL(0, 0, 0, <<>>, <<>>, 0, NoTime)

\* models.StatsResponse.
StatsResponse(original, code, clicks, created, expires) ==
  [OriginalURL |-> original, ShortCode |-> code, ClickCount |-> clicks,
   CreatedAt |-> created, ExpiresAt |-> expires]

\* models.ShortenResponse (ShortURL is the request's host followed by ShortCode).
ShortenResponse(original, code, expires) ==
  [OriginalURL |-> original, ShortCode |-> code, ExpiresAt |-> expires]

\* MarshalURL for a struct whose ExpiresAt is left out of the JSON.
MarshalURLNoExpiry(u) ==
  <<u.ID, u.CreatedAt, u.UpdatedAt, u.OriginalURL, u.ShortCode, u.ClickCount,
    NoTime>>

\* json.Marshal / json.Unmarshal of models.URL: the fields in declaration order.
MarshalURL(u) ==
  <<u.ID, u.CreatedAt, u.UpdatedAt, u.OriginalURL, u.ShortCode, u.ClickCount,
    u.ExpiresAt>>
UnmarshalURL(j) == URL(j[1], j[2], j[3], j[4], j[5], j[6], j[7])

\* json.Marshal / json.Unmarshal of models.StatsResponse; expires_at is
\* omitted when nil and a missing field decodes to nil.
MarshalStats(s) ==
  <<s.OriginalURL, s.ShortCode, s.ClickCount, s.CreatedAt>>
    \o (IF s.ExpiresAt = NoTime THEN <<>> ELSE <<s.ExpiresAt>>)
UnmarshalStats(j) ==
  StatsResponse(j[1], j[2], j[3], j[4], IF Len(j) >= 5 THEN j[5] ELSE NoTime)

\* ---------------------------------------------------------------- Redis keys

URLMappingKey(shortCode)  == <<"url:mapping:", shortCode>>
URLStatsKey(shortCode)    == <<"url:stats:", shortCode>>
OriginalURLKey(hashed)    == <<"url:original:", hashed>>
ClicksKey(shortCode)      == <<"url:clicks:", shortCode>>

\* ------------------------------------------------------------ Redis commands

\* A key is readable until its time-to-live has elapsed.
RedisLive(key) ==
  key \in DOMAIN redis /\ (redis[key].exp = NoExpiry \/ now < redis[key].exp)

\* SET key val EX ttl
RedisSet(key, val, ttl) ==
  [k \in DOMAIN redis \cup {key} |->
     IF k = key THEN [val |-> val, exp |-> now + ttl] ELSE redis[k]]

\* INCR key: a missing key counts from 0 and gets no time-to-live.
RedisIncr(key) ==
  [k \in DOMAIN redis \cup {key} |->
     IF k = key
       THEN IF RedisLive(key) THEN [redis[key] EXCEPT !.val = @ + 1]
            ELSE [val |-> 1, exp |-> NoExpiry]
       ELSE redis[k]]

\* DEL key
RedisDel(key) == [k \in DOMAIN redis \ {key} |-> redis[k]]

\* What a read returns: a value with a nil error, the error redis.Nil (or
\* gorm.ErrRecordNotFound), or the error of a command that failed.
Miss == [err |-> TRUE, nil |-> TRUE, val |-> <<>>]
Fail == [err |-> TRUE, nil |-> FALSE, val |-> <<>>]
Hit(v) == [err |-> FALSE, nil |-> FALSE, val |-> v]

\* ------------------------------------------------------------- cache layer
\* Each operation takes ok: whether the Redis command it issues succeeds.
\* Reads return Miss or Hit(value); writes return the new keyspace.

\* CacheURLMapping without the check for a nil client.
CacheURLMappingUnguarded(shortCode, urlData, ok) ==
  IF ok THEN RedisSet(URLMappingKey(shortCode), MarshalURL(urlData), DefaultCacheTTL)
  ELSE redis

\* InitRedis: the client is kept when its first ping succeeds and set to nil
\* when it fails; either way InitRedis returns and main goes on.
InitRedis(ping) == ping

CacheURLMapping(shortCode, urlData, ok) ==
  IF ~RedisClient THEN redis
  ELSE IF ok THEN RedisSet(URLMappingKey(shortCode), MarshalURL(urlData), DefaultCacheTTL)
  ELSE redis

GetURLMapping(shortCode, ok) ==
  IF ~RedisClient THEN Miss
  ELSE IF ~ok THEN Fail
  ELSE IF RedisLive(URLMappingKey(shortCode))
    THEN Hit(UnmarshalURL(redis[URLMappingKey(shortCode)].val))
  ELSE Miss

\* CacheURLStats storing the snapshot for DefaultCacheTTL.
CacheURLStatsDefaultTTL(shortCode, stats, ok) ==
  IF ~RedisClient THEN redis
  ELSE IF ok THEN RedisSet(URLStatsKey(shortCode), MarshalStats(stats), DefaultCacheTTL)
  ELSE redis


CacheURLStats(shortCode, stats, ok) ==
  IF ~RedisClient THEN redis
  ELSE IF ok THEN RedisSet(URLStatsKey(shortCode), MarshalStats(stats), StatsCacheTTL)
  ELSE redis

GetURLStats(shortCode, ok) ==
  IF ~RedisClient THEN Miss
  ELSE IF ~ok THEN Fail
  ELSE IF RedisLive(URLStatsKey(shortCode))
    THEN Hit(UnmarshalStats(redis[URLStatsKey(shortCode)].val))
  ELSE Miss

CacheOriginalURLMapping(originalURL, shortCode, ok) ==
  IF ~RedisClient THEN redis
  ELSE IF ok THEN RedisSet(OriginalURLKey(hashString(originalURL)), shortCode, DefaultCacheTTL)
  ELSE redis

GetShortCodeForOriginalURL(originalURL, ok) ==
  IF ~RedisClient THEN Miss
  ELSE IF ~ok THEN Fail
  ELSE IF RedisLive(OriginalURLKey(hashString(originalURL)))
    THEN Hit(redis[OriginalURLKey(hashString(originalURL))].val)
  ELSE Miss

IncrementClickCount(shortCode, ok) ==
  IF ~RedisClient THEN redis
  ELSE IF ok THEN RedisIncr(ClicksKey(shortCode))
  ELSE redis

GetClickCount(shortCode, ok) ==
  IF ~RedisClient THEN Miss
  ELSE IF ~ok THEN Fail
  ELSE IF RedisLive(ClicksKey(shortCode))
    THEN Hit(redis[ClicksKey(shortCode)].val)
  ELSE Miss

\* InvalidateKeys without the mapping key.
InvalidateKeysNoMapping(shortCode) ==
  <<URLStatsKey(shortCode), ClicksKey(shortCode)>>

\* InvalidateKeys with the pattern of the mapping key used for the click
\* counter too.
InvalidateKeysNoClicks(shortCode) ==
  <<URLMappingKey(shortCode), URLStatsKey(shortCode), URLMappingKey(shortCode)>>


\* The keys InvalidateCache deletes, in the order of its loop.
InvalidateKeys(shortCode) ==
  <<URLMappingKey(shortCode), URLStatsKey(shortCode), ClicksKey(shortCode)>>

\* InvalidateCache for a loop that deletes the stats entry only.
InvalidateCacheStatsOnly(shortCode, i, ok) ==
  IF ~RedisClient THEN redis
  ELSE IF ok /\ i = 2 THEN RedisDel(InvalidateKeys(shortCode)[i])
  ELSE redis


\* One iteration of InvalidateCache's loop: DEL keys[i].
InvalidateCache(shortCode, i, ok) ==
  IF ~RedisClient THEN redis
  ELSE IF ok THEN RedisDel(InvalidateKeys(shortCode)[i])
  ELSE redis

IsRedisHealthy(ping) == IF ~RedisClient THEN FALSE ELSE ping

\* ------------------------------------------------------------- urls table

Rows(table) == { table[i] : i \in 1..Len(table) }

\* Where(column = value).First(&row): the matching row of lowest id.
RECURSIVE FirstWhere(_, _, _, _)
FirstWhere(table, column, value, i) ==
  IF i > Len(table) THEN Miss
  ELSE IF table[i][column] = value THEN Hit(table[i])
  ELSE FirstWhere(table, column, value, i + 1)

\* FindByOriginalURL for a lookup keyed by the hash of the URL.
FindByOriginalURLHashed(table, originalURL, ok) ==
  IF ~ok THEN Fail
  ELSE LET same == { i \in 1..Len(table) :
                       hashString(table[i].OriginalURL) = hashString(originalURL) }
       IN IF same = {} THEN Miss
          ELSE Hit(table[CHOOSE i \in same : \A j \in same : i <= j])


FindByOriginalURL(table, originalURL, ok) ==
  IF ok THEN FirstWhere(table, "OriginalURL", originalURL, 1) ELSE Fail

FindByShortCode(table, shortCode, ok) ==
  IF ok THEN FirstWhere(table, "ShortCode", shortCode, 1) ELSE Fail

\* UniqueViolation for a table that has no unique index on short_code.
UniqueViolationNever(table, record) == FALSE

\* The unique index on short_code rejects a second row with the same code.
UniqueViolation(table, record) ==
  \E r \in Rows(table) : r.ShortCode = record.ShortCode

\* DB.Create(&record): the row as stored, with its id and timestamps.
InsertedRow(table, record) ==
  [record EXCEPT !.ID = Len(table) + 1, !.CreatedAt = now, !.UpdatedAt = now]

\* DB.Model(record).Update("click_count", value): the row with record's id.
UpdateClickCount(table, record, value) ==
  [i \in 1..Len(table) |->
     IF table[i].ID = record.ID
       THEN [table[i] EXCEPT !.ClickCount = value, !.UpdatedAt = now]
       ELSE table[i]]

\* HasExpired with After in place of Before.
HasExpiredAfter(urlRecord) ==
  urlRecord.ExpiresAt /= NoTime /\ urlRecord.ExpiresAt > now

\* urlRecord.ExpiresAt != nil && urlRecord.ExpiresAt.Before(time.Now())
HasExpired(urlRecord) ==
  urlRecord.ExpiresAt /= NoTime /\ urlRecord.ExpiresAt < now

\* ExpiryFor counting ExpiresIn in minutes instead of days.
ExpiryForMinutes(expiresIn) ==
  IF expiresIn > 0 THEN now + expiresIn ELSE NoTime

\* time.Now().AddDate(0, 0, request.ExpiresIn) when ExpiresIn > 0, else nil.
ExpiryFor(expiresIn) ==
  IF expiresIn > 0 THEN now + expiresIn * Day ELSE NoTime

\* ------------------------------------------------- store-only reference model
\* What each operation answers, and does to the table, when it is computed
\* from the durable store alone.

RefRows(table, column, value) ==
  { i \in 1..Len(table) : table[i][column] = value }

RefLowest(S) == CHOOSE i \in S : \A j \in S : i <= j

ErrorBody(text) == [error |-> text]

NoExpect == [status |-> 0, body |-> <<>>]

RefShorten(table, url, expiresIn, draw) ==
  LET same == RefRows(table, "OriginalURL", url)
      code == GenerateShortCode(draw)
  IN IF url \notin ValidUrls
       THEN [status |-> 400, body |-> ErrorBody("Invalid URL format")]
     ELSE IF same /= {}
       THEN [status |-> 200,
             body |-> ShortenResponse(url, table[RefLowest(same)].ShortCode,
                                      table[RefLowest(same)].ExpiresAt)]
     ELSE IF RefRows(table, "ShortCode", code) /= {}
       THEN [status |-> 500, body |-> ErrorBody("Failed to create short URL")]
     ELSE [status |-> 201,
           body |-> ShortenResponse(url, code,
                      IF expiresIn >= 1 THEN now + expiresIn * 1440 ELSE NoTime)]

RefShortenTable(table, url, expiresIn, draw) ==
  IF RefShorten(table, url, expiresIn, draw).status = 201
    THEN Append(table,
           URL(Len(table) + 1, now, now, url, GenerateShortCode(draw), 0,
               IF expiresIn >= 1 THEN now + expiresIn * 1440 ELSE NoTime))
    ELSE table

RefRedirect(table, code) ==
  LET same == RefRows(table, "ShortCode", code)
  IN IF same = {}
       THEN [status |-> 404, body |-> ErrorBody("Short URL not found")]
     ELSE IF table[RefLowest(same)].ExpiresAt /= NoTime
             /\ now > table[RefLowest(same)].ExpiresAt
       THEN [status |-> 410, body |-> ErrorBody("Short URL has expired")]
     ELSE [status |-> 301, body |-> [Location |-> table[RefLowest(same)].OriginalURL]]

RefRedirectTable(table, code) ==
  IF RefRedirect(table, code).status = 301
    THEN [i \in 1..Len(table) |->
            IF table[i].ShortCode = code
              THEN [table[i] EXCEPT !.ClickCount = @ + 1, !.UpdatedAt = now]
              ELSE table[i]]
    ELSE table

RefStats(table, code) ==
  LET same == RefRows(table, "ShortCode", code)
  IN IF same = {}
       THEN [status |-> 404, body |-> ErrorBody("Short URL not found")]
     ELSE [status |-> 200,
           body |-> StatsResponse(table[RefLowest(same)].OriginalURL, code,
                                  table[RefLowest(same)].ClickCount,
                                  table[RefLowest(same)].CreatedAt,
                                  table[RefLowest(same)].ExpiresAt)]

\* ------------------------------------------------------------ request slots

Idle ==
  [pc |-> "idle", op |-> "", url |-> <<>>, expiresIn |-> 0, draw |-> <<>>,
   shortCode |-> <<>>, urlRecord |-> ZeroURL, clickCount |-> 0,
   expect |-> NoExpect, hit |-> FALSE, masked |-> FALSE, pairs |-> FALSE,
   early |-> FALSE, quiet |-> FALSE]

NoResponse ==
  [op |-> "", url |-> <<>>, expiresIn |-> 0, shortCode |-> <<>>, status |-> 0,
   body |-> <<>>, at |-> 0, rows |-> 0, expect |-> NoExpect, hit |-> FALSE,
   masked |-> FALSE]

\* owner: the slot whose handler started the goroutine; answered: that
\* handler has sent its response.
FreeTask ==
  [pc |-> "free", shortCode |-> <<>>, urlRecord |-> ZeroURL, i |-> 0,
   owner |-> 0, answered |-> FALSE]

TaskSlots == 1..MaxTasks

\* No request is being handled and no click-accounting goroutine is running.
Quiescent ==
  /\ \A p \in Procs : req[p].pc = "idle"
  /\ \A t \in TaskSlots : tasks[t].pc = "free"

\* c.JSON / c.Redirect: the handler of slot p, in state r, sends its response
\* and returns.  The response is recorded; the one before it is kept too when
\* the request was admitted with pairs set.
Respond(p, r, status, body) ==
  /\ hist' = <<IF r.pairs THEN hist[2] ELSE NoResponse,
               [op |-> r.op, url |-> r.url, expiresIn |-> r.expiresIn,
                shortCode |-> r.shortCode, status |-> status, body |-> body,
                at |-> now, rows |-> Len(urls), expect |-> r.expect,
                hit |-> r.hit,
                masked |-> r.masked]>>
  /\ req' = [req EXCEPT ![p] = Idle]

\* The handler of slot p moves on to position pc with locals r.
Goto(p, r, pc) ==
  /\ req' = [req EXCEPT ![p] = [r EXCEPT !.pc = pc]]
  /\ UNCHANGED hist

\* r after a cache read of `key` returned `got`.
AfterRead(r, key, got) ==
  [r EXCEPT !.hit = @ \/ ~got.err,
            !.masked = @ \/ (got.err /\ RedisClient /\ RedisLive(key))]

\* -------------------------------------------------------------- ShortenURL
\* E.seq: the request is admitted only when nothing else is in flight, and the
\* reference model runs alongside it.

\* The request slots once the handler of slot p has started with locals r:
\* the requests already in flight are no longer alone.
Arrived(p, r) ==
  [q \in Procs |-> IF q = p THEN r ELSE [req[q] EXCEPT !.quiet = FALSE]]

\* POST /shorten arrives; the body is bound and the URL validated.  quiet
\* records that no other request is in flight, until another one arrives.
StartShorten(p, url, expiresIn, draw, E) ==
  /\ req[p].pc = "idle"
  /\ E.seq => Quiescent
  /\ LET r == [Idle EXCEPT !.op = "shorten", !.url = url, !.pairs = E.pairs,
                 !.expiresIn = expiresIn, !.draw = draw,
                 !.quiet = \A q \in Procs \ {p} : req[q].pc = "idle",
                 !.expect = IF E.seq THEN RefShorten(urls, url, expiresIn, draw)
                            ELSE NoExpect]
     IN /\ IF ~isValidURL(url)
             THEN Respond(p, r, 400, ErrorBody("Invalid URL format"))
             ELSE /\ req' = Arrived(p, [r EXCEPT !.pc = "shortenIndex"])
                  /\ UNCHANGED hist
        /\ ref' = IF E.seq THEN RefShortenTable(urls, url, expiresIn, draw) ELSE ref
  /\ UNCHANGED <<RedisClient, redis, urls, now, ticks, tasks, served>>

\* cache.GetShortCodeForOriginalURL(request.URL)
ShortenLookupIndex(p, ok) ==
  /\ req[p].pc = "shortenIndex"
  /\ LET got == GetShortCodeForOriginalURL(req[p].url, ok)
         r   == AfterRead(req[p], OriginalURLKey(hashString(req[p].url)), got)
     IN IF ~got.err
          THEN Goto(p, [r EXCEPT !.shortCode = got.val], "shortenMapping")
          ELSE Goto(p, r, "shortenFind")
  /\ UNCHANGED <<RedisClient, redis, urls, now, ticks, tasks, served, ref>>

\* ShortenGetMapping for a handler that answers from the index entry alone
\* when the mapping entry is missing.
ShortenGetMappingIndexOnly(p, ok) ==
  /\ req[p].pc = "shortenMapping"
  /\ LET got == GetURLMapping(req[p].shortCode, ok)
         r   == AfterRead(req[p], URLMappingKey(req[p].shortCode), got)
     IN IF ~got.err
          THEN Respond(p, r, 200,
                 ShortenResponse(got.val.OriginalURL, got.val.ShortCode,
                                 got.val.ExpiresAt))
          ELSE Respond(p, r, 200, ShortenResponse(r.url, r.shortCode, NoTime))
  /\ UNCHANGED <<RedisClient, redis, urls, now, ticks, tasks, served, ref>>


\* cache.GetURLMapping(shortCode) for the code the index gave.
ShortenGetMapping(p, ok) ==
  /\ req[p].pc = "shortenMapping"
  /\ LET got == GetURLMapping(req[p].shortCode, ok)
         r   == AfterRead(req[p], URLMappingKey(req[p].shortCode), got)
     IN IF ~got.err
          THEN Respond(p, r, 200,
                 ShortenResponse(got.val.OriginalURL, got.val.ShortCode,
                                 got.val.ExpiresAt))
          ELSE Goto(p, r, "shortenFind")
  /\ UNCHANGED <<RedisClient, redis, urls, now, ticks, tasks, served, ref>>

\* The record ShortenURL builds for a URL it did not find.
NewRecord(url, expiresIn, draw) ==
  [ZeroURL EXCEPT !.OriginalURL = url, !.ShortCode = GenerateShortCode(draw),
                  !.ClickCount = 0, !.ExpiresAt = ExpiryFor(expiresIn)]

\* ShortenFindExisting for a handler that does not look the URL up in the
\* table.
ShortenFindExistingSkipped(p, ok) ==
  /\ req[p].pc = "shortenFind"
  /\ Goto(p, [req[p] EXCEPT
                !.shortCode = GenerateShortCode(req[p].draw),
                !.urlRecord = NewRecord(req[p].url, req[p].expiresIn, req[p].draw)],
          "shortenInsert")
  /\ UNCHANGED <<RedisClient, redis, urls, now, ticks, tasks, served, ref>>

\* DB.Where("original_url = ?").First(&existingURL); when nothing is found
\* the short code is generated and the record built.
ShortenFindExisting(p, ok) ==
  /\ req[p].pc = "shortenFind"
  /\ LET got == FindByOriginalURL(urls, req[p].url, ok)
     IN IF ~got.err
          THEN Goto(p, [req[p] EXCEPT !.urlRecord = got.val], "shortenCacheExisting")
          ELSE Goto(p, [req[p] EXCEPT
                          !.shortCode = GenerateShortCode(req[p].draw),
                          !.urlRecord = NewRecord(req[p].url, req[p].expiresIn,
                                                  req[p].draw)],
                    "shortenInsert")
  /\ UNCHANGED <<RedisClient, redis, urls, now, ticks, tasks, served, ref>>

\* ShortenCacheExisting for a handler that does not cache the row it found.
ShortenCacheExistingSkipped(p, ok) ==
  /\ req[p].pc = "shortenCacheExisting"
  /\ Goto(p, req[p], "shortenIndexExisting")
  /\ UNCHANGED <<RedisClient, redis, urls, now, ticks, tasks, served, ref>>


\* cache.CacheURLMapping(existingURL.ShortCode, &existingURL)
ShortenCacheExisting(p, ok) ==
  /\ req[p].pc = "shortenCacheExisting"
  /\ redis' = CacheURLMapping(req[p].urlRecord.ShortCode, req[p].urlRecord, ok)
  /\ Goto(p, req[p], "shortenIndexExisting")
  /\ UNCHANGED <<RedisClient, urls, now, ticks, tasks, served, ref>>

\* cache.CacheOriginalURLMapping(...) and the 200 response.
ShortenIndexExisting(p, ok) ==
  /\ req[p].pc = "shortenIndexExisting"
  /\ redis' = CacheOriginalURLMapping(req[p].urlRecord.OriginalURL,
                                      req[p].urlRecord.ShortCode, ok)
  /\ Respond(p, req[p], 200,
       ShortenResponse(req[p].urlRecord.OriginalURL, req[p].urlRecord.ShortCode,
                       req[p].urlRecord.ExpiresAt))
  /\ UNCHANGED <<RedisClient, urls, now, ticks, tasks, served, ref>>

\* ShortenInsert for a handler that ignores the error of DB.Create.
ShortenInsertIgnoringError(p, ok) ==
  /\ req[p].pc = "shortenInsert"
  /\ IF ~ok \/ UniqueViolation(urls, req[p].urlRecord)
       THEN /\ Goto(p, req[p], "shortenCacheNew")
            /\ UNCHANGED urls
       ELSE /\ urls' = Append(urls, InsertedRow(urls, req[p].urlRecord))
            /\ Goto(p, [req[p] EXCEPT !.urlRecord = InsertedRow(urls, req[p].urlRecord)],
                    "shortenCacheNew")
  /\ UNCHANGED <<RedisClient, redis, now, ticks, tasks, served, ref>>

\* DB.Create(&urlRecord)
ShortenInsert(p, ok) ==
  /\ req[p].pc = "shortenInsert"
  /\ IF ~ok \/ UniqueViolation(urls, req[p].urlRecord)
       THEN /\ Respond(p, req[p], 500, ErrorBody("Failed to create short URL"))
            /\ UNCHANGED urls
       ELSE /\ urls' = Append(urls, InsertedRow(urls, req[p].urlRecord))
            /\ Goto(p, [req[p] EXCEPT !.urlRecord = InsertedRow(urls, req[p].urlRecord)],
                    "shortenCacheNew")
  /\ UNCHANGED <<RedisClient, redis, now, ticks, tasks, served, ref>>

\* cache.CacheURLMapping(urlRecord.ShortCode, &urlRecord)
ShortenCacheNew(p, ok) ==
  /\ req[p].pc = "shortenCacheNew"
  /\ redis' = CacheURLMapping(req[p].urlRecord.ShortCode, req[p].urlRecord, ok)
  /\ Goto(p, req[p], "shortenIndexNew")
  /\ UNCHANGED <<RedisClient, urls, now, ticks, tasks, served, ref>>

\* cache.CacheOriginalURLMapping(...) and the 201 response.
ShortenIndexNew(p, ok) ==
  /\ req[p].pc = "shortenIndexNew"
  /\ redis' = CacheOriginalURLMapping(req[p].urlRecord.OriginalURL,
                                      req[p].urlRecord.ShortCode, ok)
  /\ Respond(p, req[p], 201,
       ShortenResponse(req[p].urlRecord.OriginalURL, req[p].urlRecord.ShortCode,
                       req[p].urlRecord.ExpiresAt))
  /\ UNCHANGED <<RedisClient, urls, now, ticks, tasks, served, ref>>

\* -------------------------------------------------------------- RedirectURL

RECURSIVE Total(_, _)
Total(f, S) ==
  IF S = {} THEN 0
  ELSE LET x == CHOOSE y \in S : TRUE IN f[x] + Total(f, S \ {x})

\* Redirect requests accepted so far: answered with a redirect or in progress.
RedirectsAccepted ==
  Total(served, Codes) + Cardinality({ p \in Procs : req[p].op = "redirect" })

HasFreeTask == \E t \in TaskSlots : tasks[t].pc = "free"

\* go func() { ... }(): the goroutine captures shortCode and urlRecord.
Spawn(p, shortCode, urlRecord) ==
  LET t == CHOOSE t \in TaskSlots :
             /\ tasks[t].pc = "free"
             /\ \A u \in TaskSlots : tasks[u].pc = "free" => t <= u
  IN [tasks EXCEPT ![t] = [pc |-> "incr", shortCode |-> shortCode,
                           urlRecord |-> urlRecord, i |-> 1, owner |-> p,
                           answered |-> FALSE]]

\* GET /{shortCode} arrives.
StartRedirect(p, shortCode, E) ==
  /\ req[p].pc = "idle"
  /\ E.seq => Quiescent
  /\ RedirectsAccepted < MaxRedirects
  /\ Goto(p, [Idle EXCEPT !.op = "redirect", !.shortCode = shortCode,
                !.pairs = E.pairs,
                !.expect = IF E.seq THEN RefRedirect(urls, shortCode) ELSE NoExpect],
          "redirectMapping")
  /\ ref' = IF E.seq THEN RefRedirectTable(urls, shortCode) ELSE ref
  /\ UNCHANGED <<RedisClient, redis, urls, now, ticks, tasks, served>>

\* RedirectCheckExpiry for a handler that starts the click-accounting
\* goroutine before it checks the expiry.
RedirectCheckExpiryCounting(p, r) ==
  IF HasExpired(r.urlRecord)
    THEN /\ HasFreeTask
         /\ tasks' = [t \in TaskSlots |->
                        IF Spawn(p, r.shortCode, r.urlRecord)[t] /= tasks[t]
                          THEN [Spawn(p, r.shortCode, r.urlRecord)[t] EXCEPT !.answered = TRUE]
                          ELSE tasks[t]]
         /\ Respond(p, r, 410, ErrorBody("Short URL has expired"))
    ELSE /\ HasFreeTask
         /\ tasks' = Spawn(p, r.shortCode, r.urlRecord)
         /\ Goto(p, r, "redirectRespond")


\* From the expiry check on: 410 when the record has expired, else the
\* click-accounting goroutine is started and the handler goes on to redirect.
RedirectCheckExpiry(p, r) ==
  IF HasExpired(r.urlRecord)
    THEN /\ Respond(p, r, 410, ErrorBody("Short URL has expired"))
         /\ UNCHANGED tasks
    ELSE /\ HasFreeTask
         /\ tasks' = Spawn(p, r.shortCode, r.urlRecord)
         /\ Goto(p, r, "redirectRespond")

\* RedirectGetMapping for a handler that answers 500 when the cache read
\* fails with an error other than redis.Nil.
RedirectGetMappingStrict(p, ok) ==
  /\ req[p].pc = "redirectMapping"
  /\ LET got == GetURLMapping(req[p].shortCode, ok)
         r   == AfterRead(req[p], URLMappingKey(req[p].shortCode), got)
     IN IF ~got.err
          THEN RedirectCheckExpiry(p, [r EXCEPT !.urlRecord = got.val])
          ELSE IF ~got.nil
            THEN Respond(p, r, 500, ErrorBody("cache error")) /\ UNCHANGED tasks
          ELSE Goto(p, r, "redirectFind") /\ UNCHANGED tasks
  /\ UNCHANGED <<RedisClient, redis, urls, now, ticks, served, ref>>

\* RedirectGetMapping for a handler that trusts a cached record and redirects
\* without checking its expiry.
RedirectGetMappingTrusting(p, ok) ==
  /\ req[p].pc = "redirectMapping"
  /\ LET got == GetURLMapping(req[p].shortCode, ok)
         r   == AfterRead(req[p], URLMappingKey(req[p].shortCode), got)
     IN IF ~got.err
          THEN /\ HasFreeTask
               /\ tasks' = Spawn(p, r.shortCode, got.val)
               /\ Goto(p, [r EXCEPT !.urlRecord = got.val], "redirectRespond")
          ELSE Goto(p, r, "redirectFind") /\ UNCHANGED tasks
  /\ UNCHANGED <<RedisClient, redis, urls, now, ticks, served, ref>>


\* cache.GetURLMapping(shortCode); on a hit the cached record is used.
RedirectGetMapping(p, ok) ==
  /\ req[p].pc = "redirectMapping"
  /\ LET got == GetURLMapping(req[p].shortCode, ok)
         r   == AfterRead(req[p], URLMappingKey(req[p].shortCode), got)
     IN IF ~got.err
          THEN RedirectCheckExpiry(p, [r EXCEPT !.urlRecord = got.val])
          ELSE Goto(p, r, "redirectFind") /\ UNCHANGED tasks
  /\ UNCHANGED <<RedisClient, redis, urls, now, ticks, served, ref>>

\* DB.Where("short_code = ?").First(&dbURL)
RedirectFind(p, ok) ==
  /\ req[p].pc = "redirectFind"
  /\ LET got == FindByShortCode(urls, req[p].shortCode, ok)
     IN IF got.err
          THEN Respond(p, req[p], 404, ErrorBody("Short URL not found"))
          ELSE Goto(p, [req[p] EXCEPT !.urlRecord = got.val], "redirectCache")
  /\ UNCHANGED <<RedisClient, redis, urls, now, ticks, tasks, served, ref>>

\* RedirectCacheFound for a handler that checks the expiry first and caches
\* only a record that has not expired.
RedirectCacheFoundUnlessExpired(p, ok) ==
  /\ req[p].pc = "redirectCache"
  /\ redis' = IF HasExpired(req[p].urlRecord) THEN redis
              ELSE CacheURLMapping(req[p].shortCode, req[p].urlRecord, ok)
  /\ RedirectCheckExpiry(p, req[p])
  /\ UNCHANGED <<RedisClient, urls, now, ticks, served, ref>>


\* cache.CacheURLMapping(shortCode, urlRecord), then the expiry check.
RedirectCacheFound(p, ok) ==
  /\ req[p].pc = "redirectCache"
  /\ redis' = CacheURLMapping(req[p].shortCode, req[p].urlRecord, ok)
  /\ RedirectCheckExpiry(p, req[p])
  /\ UNCHANGED <<RedisClient, urls, now, ticks, served, ref>>

\* RedirectRespond for a handler that waits for its goroutine to end.
RedirectRespondAfterTask(p) ==
  /\ req[p].pc = "redirectRespond"
  /\ \A t \in TaskSlots : tasks[t].owner /= p
  /\ Respond(p, req[p], 301, [Location |-> req[p].urlRecord.OriginalURL])
  /\ served' = [served EXCEPT ![req[p].shortCode] = @ + 1]
  /\ UNCHANGED <<RedisClient, redis, urls, now, ticks, tasks, ref>>

\* c.Redirect(http.StatusMovedPermanently, urlRecord.OriginalURL)
RedirectRespond(p) ==
  /\ req[p].pc = "redirectRespond"
  /\ Respond(p, req[p], 301, [Location |-> req[p].urlRecord.OriginalURL])
  /\ served' = [served EXCEPT ![req[p].shortCode] = @ + 1]
  /\ tasks' = [t \in TaskSlots |->
                 IF tasks[t].owner = p /\ ~tasks[t].answered
                   THEN [tasks[t] EXCEPT !.answered = TRUE]
                   ELSE tasks[t]]
  /\ UNCHANGED <<RedisClient, redis, urls, now, ticks, ref>>

\* ------------------------------------------------- click-accounting goroutine

\* TaskIncrement for a goroutine that returns when the increment fails.
TaskIncrementStopping(t, ok) ==
  /\ tasks[t].pc = "incr"
  /\ redis' = IncrementClickCount(tasks[t].shortCode, ok)
  /\ tasks' = IF RedisClient /\ ~ok THEN [tasks EXCEPT ![t] = FreeTask]
              ELSE [tasks EXCEPT ![t].pc = "update"]
  /\ UNCHANGED <<RedisClient, urls, now, ticks, req, hist, served, ref>>


\* cache.IncrementClickCount(shortCode)
TaskIncrement(t, ok) ==
  /\ tasks[t].pc = "incr"
  /\ redis' = IncrementClickCount(tasks[t].shortCode, ok)
  /\ tasks' = [tasks EXCEPT ![t].pc = "update"]
  /\ UNCHANGED <<RedisClient, urls, now, ticks, req, hist, served, ref>>

\* NextClickCount for a goroutine that reads the row again before it writes.
NextClickCountReread(urlRecord) ==
  LET same == { i \in 1..Len(urls) : urls[i].ID = urlRecord.ID }
  IN IF same = {} THEN urlRecord.ClickCount + 1
     ELSE urls[CHOOSE i \in same : TRUE].ClickCount + 1


\* NextClickCount for a goroutine that adds two.
NextClickCountTwice(urlRecord) == urlRecord.ClickCount + 2


\* The value the goroutine writes to click_count.
NextClickCount(urlRecord) == urlRecord.ClickCount + 1

\* DB.Model(urlRecord).Update("click_count", urlRecord.ClickCount+1)
TaskUpdate(t, ok) ==
  /\ tasks[t].pc = "update"
  /\ urls' = IF ok THEN UpdateClickCount(urls, tasks[t].urlRecord,
                                         NextClickCount(tasks[t].urlRecord))
             ELSE urls
  /\ tasks' = [tasks EXCEPT ![t].pc = "invalidate"]
  /\ UNCHANGED <<RedisClient, redis, now, ticks, req, hist, served, ref>>

\* TaskInvalidate for a loop that starts over from the first key whenever a
\* DEL fails.
TaskInvalidateRestarting(t, ok) ==
  /\ tasks[t].pc = "invalidate"
  /\ redis' = InvalidateCache(tasks[t].shortCode, tasks[t].i, ok)
  /\ IF RedisClient /\ ~ok
       THEN /\ tasks' = [tasks EXCEPT ![t].i = 1]
            /\ UNCHANGED req
       ELSE IF tasks[t].i < Len(InvalidateKeys(tasks[t].shortCode))
         THEN /\ tasks' = [tasks EXCEPT ![t].i = @ + 1]
              /\ UNCHANGED req
         ELSE /\ tasks' = [tasks EXCEPT ![t] = FreeTask]
              /\ req' = IF tasks[t].answered THEN req
                        ELSE [req EXCEPT ![tasks[t].owner].early = TRUE]
  /\ UNCHANGED <<RedisClient, urls, now, ticks, hist, served, ref>>

\* cache.InvalidateCache(shortCode): one DEL per step; the goroutine ends
\* after the last, and if its handler has not responded yet the handler's
\* early flag records that.
TaskInvalidate(t, ok) ==
  /\ tasks[t].pc = "invalidate"
  /\ redis' = InvalidateCache(tasks[t].shortCode, tasks[t].i, ok)
  /\ IF tasks[t].i < Len(InvalidateKeys(tasks[t].shortCode))
       THEN /\ tasks' = [tasks EXCEPT ![t].i = @ + 1]
            /\ UNCHANGED req
       ELSE /\ tasks' = [tasks EXCEPT ![t] = FreeTask]
            /\ req' = IF tasks[t].answered THEN req
                      ELSE [req EXCEPT ![tasks[t].owner].early = TRUE]
  /\ UNCHANGED <<RedisClient, urls, now, ticks, hist, served, ref>>

\* -------------------------------------------------------------- GetURLStats

\* GET /stats/{shortCode} arrives; quiet records that no click-accounting
\* goroutine is running at that moment.
StartStats(p, shortCode, E) ==
  /\ req[p].pc = "idle"
  /\ E.seq => Quiescent
  /\ Goto(p, [Idle EXCEPT !.op = "stats", !.shortCode = shortCode,
                !.pairs = E.pairs,
                !.quiet = \A t \in TaskSlots : tasks[t].pc = "free",
                !.expect = IF E.seq THEN RefStats(urls, shortCode) ELSE NoExpect],
          "statsCached")
  /\ UNCHANGED <<RedisClient, redis, urls, now, ticks, tasks, served, ref>>

\* StatsGetCached for a handler that reads the table even when the stats
\* entry is there.
StatsGetCachedIgnored(p, ok) ==
  /\ req[p].pc = "statsCached"
  /\ LET got == GetURLStats(req[p].shortCode, ok)
         r   == AfterRead(req[p], URLStatsKey(req[p].shortCode), got)
     IN Goto(p, r, "statsFind")
  /\ UNCHANGED <<RedisClient, redis, urls, now, ticks, tasks, served, ref>>


\* cache.GetURLStats(shortCode); a hit is returned as it is.
StatsGetCached(p, ok) ==
  /\ req[p].pc = "statsCached"
  /\ LET got == GetURLStats(req[p].shortCode, ok)
         r   == AfterRead(req[p], URLStatsKey(req[p].shortCode), got)
     IN IF ~got.err
          THEN Respond(p, r, 200, got.val)
          ELSE Goto(p, r, "statsFind")
  /\ UNCHANGED <<RedisClient, redis, urls, now, ticks, tasks, served, ref>>

\* DB.Where("short_code = ?").First(&urlRecord); clickCount starts as the
\* row's ClickCount.
StatsFind(p, ok) ==
  /\ req[p].pc = "statsFind"
  /\ LET got == FindByShortCode(urls, req[p].shortCode, ok)
     IN IF got.err
          THEN Respond(p, req[p], 404, ErrorBody("Short URL not found"))
          ELSE Goto(p, [req[p] EXCEPT !.urlRecord = got.val,
                                      !.clickCount = got.val.ClickCount],
                    "statsClicks")
  /\ UNCHANGED <<RedisClient, redis, urls, now, ticks, tasks, served, ref>>

\* StatsGetClicks for a handler that always reports the row's ClickCount.
StatsGetClicksFromRow(p, ok) ==
  /\ req[p].pc = "statsClicks"
  /\ LET got == GetClickCount(req[p].shortCode, ok)
         r   == AfterRead(req[p], ClicksKey(req[p].shortCode), got)
     IN Goto(p, r, "statsStore")
  /\ UNCHANGED <<RedisClient, redis, urls, now, ticks, tasks, served, ref>>


\* cache.GetClickCount(shortCode): a hit replaces clickCount.
StatsGetClicks(p, ok) ==
  /\ req[p].pc = "statsClicks"
  /\ LET got == GetClickCount(req[p].shortCode, ok)
         r   == AfterRead(req[p], ClicksKey(req[p].shortCode), got)
     IN IF ~got.err
          THEN Goto(p, [r EXCEPT !.clickCount = got.val], "statsStore")
          ELSE Goto(p, r, "statsStore")
  /\ UNCHANGED <<RedisClient, redis, urls, now, ticks, tasks, served, ref>>

\* The response GetURLStats assembles.
StatsOf(r) ==
  StatsResponse(r.urlRecord.OriginalURL, r.urlRecord.ShortCode, r.clickCount,
                r.urlRecord.CreatedAt, r.urlRecord.ExpiresAt)

\* StatsStore for a handler that also writes the click count it reports to
\* the row.
StatsStoreSyncing(p, ok) ==
  /\ req[p].pc = "statsStore"
  /\ redis' = CacheURLStats(req[p].shortCode, StatsOf(req[p]), ok)
  /\ urls' = UpdateClickCount(urls, req[p].urlRecord, req[p].clickCount)
  /\ Respond(p, req[p], 200, StatsOf(req[p]))
  /\ UNCHANGED <<RedisClient, now, ticks, tasks, served, ref>>


\* cache.CacheURLStats(shortCode, &response) and the 200 response.
StatsStore(p, ok) ==
  /\ req[p].pc = "statsStore"
  /\ redis' = CacheURLStats(req[p].shortCode, StatsOf(req[p]), ok)
  /\ Respond(p, req[p], 200, StatsOf(req[p]))
  /\ UNCHANGED <<RedisClient, urls, now, ticks, tasks, served, ref>>

\* -------------------------------------------------------------- HealthCheck

\* HealthStatus without the check of the cache.
HealthStatusIgnoringCache(dbHealthy, redisHealthy) ==
  IF ~dbHealthy THEN "unhealthy" ELSE "healthy"

\* HealthStatus with the two checks in the other order.
HealthStatusCacheFirst(dbHealthy, redisHealthy) ==
  IF ~redisHealthy THEN "degraded"
  ELSE IF ~dbHealthy THEN "unhealthy"
  ELSE "healthy"


HealthStatus(dbHealthy, redisHealthy) ==
  IF ~dbHealthy THEN "unhealthy"
  ELSE IF ~redisHealthy THEN "degraded"
  ELSE "healthy"

HealthCode(dbHealthy) == IF ~dbHealthy THEN 503 ELSE 200

\* GET /health: dbPing and redisPing are the outcomes of the two probes.
HealthCheck(p, dbPing, redisPing, E) ==
  /\ req[p].pc = "idle"
  /\ E.seq => Quiescent
  /\ Respond(p, [Idle EXCEPT !.op = "health", !.pairs = E.pairs], HealthCode(dbPing),
       [status |-> HealthStatus(dbPing, IsRedisHealthy(redisPing)),
        database |-> dbPing, cache |-> IsRedisHealthy(redisPing)])
  /\ UNCHANGED <<RedisClient, redis, urls, now, ticks, tasks, served, ref>>

\* -------------------------------------------------------------------- clock

\* The clock advances by delta; Redis drops the keys whose time-to-live ended.
Tick(delta) ==
  /\ ticks < MaxTicks
  /\ Quiescent
  /\ now' = now + delta
  /\ ticks' = ticks + 1
  /\ redis' = [k \in { k \in DOMAIN redis :
                         redis[k].exp = NoExpiry \/ now + delta < redis[k].exp }
                 |-> redis[k]]
  /\ UNCHANGED <<RedisClient, urls, req, tasks, hist, served, ref>>

\* ------------------------------------------------------------ specifications

\* The outcomes of a command that cannot fail, and of one that can.
Reliable == {TRUE}
Unreliable == {TRUE, FALSE}

OneDraw == { [i \in 1..shortCodeLength |-> 0] }

\* InitDB has connected and migrated an empty table; InitRedis has either
\* kept the client or, its ping having failed, set it to nil.
Init ==
  /\ RedisClient \in { InitRedis(ping) : ping \in BOOLEAN }
  /\ redis = <<>>
  /\ urls = <<>>
  /\ now = 0
  /\ ticks = 0
  /\ req = [p \in Procs |-> Idle]
  /\ tasks = [t \in TaskSlots |-> FreeTask]
  /\ hist = <<NoResponse, NoResponse>>
  /\ served = [c \in Codes |-> 0]
  /\ ref = <<>>

\* One step of ShortenURL in slot p.  E.seq: requests are admitted one at a
\* time; E.cache, E.db: the outcomes a cache and a database command can have;
\* E.urls, E.expiresIn, E.draws: the request bodies and random draws.
Shorten(p, E) ==
  \/ \E u \in E.urls, e \in E.expiresIn, d \in E.draws :
       StartShorten(p, u, e, d, E)
  \/ \E ok \in E.cache : ShortenLookupIndex(p, ok)
  \/ \E ok \in E.cache : ShortenGetMapping(p, ok)
  \/ \E ok \in E.db : ShortenFindExisting(p, ok)
  \/ \E ok \in E.cache : ShortenCacheExisting(p, ok)
  \/ \E ok \in E.cache : ShortenIndexExisting(p, ok)
  \/ \E ok \in E.db : ShortenInsert(p, ok)
  \/ \E ok \in E.cache : ShortenCacheNew(p, ok)
  \/ \E ok \in E.cache : ShortenIndexNew(p, ok)

\* One step of RedirectURL in slot p.
Redirect(p, E) ==
  \/ \E c \in Codes : StartRedirect(p, c, E)
  \/ \E ok \in E.cache : RedirectGetMapping(p, ok)
  \/ \E ok \in E.db : RedirectFind(p, ok)
  \/ \E ok \in E.cache : RedirectCacheFound(p, ok)
  \/ RedirectRespond(p)

\* One step of GetURLStats in slot p.
Stats(p, E) ==
  \/ \E c \in Codes : StartStats(p, c, E)
  \/ \E ok \in E.cache : StatsGetCached(p, ok)
  \/ \E ok \in E.db : StatsFind(p, ok)
  \/ \E ok \in E.cache : StatsGetClicks(p, ok)
  \/ \E ok \in E.cache : StatsStore(p, ok)

Health(p, E) ==
  \E db \in E.db, ping \in E.cache : HealthCheck(p, db, ping, E)

\* One step of a click-accounting goroutine.
Task(t, E) ==
  \/ \E ok \in E.cache : TaskIncrement(t, ok)
  \/ \E ok \in E.db : TaskUpdate(t, ok)
  \/ \E ok \in E.cache : TaskInvalidate(t, ok)

\* Requests follow one another while the goroutines of earlier redirects are
\* still running; no command fails and the clock stands still.
EnvSpec ==
  [seq |-> FALSE, pairs |-> FALSE, cache |-> Reliable, db |-> Reliable,
   urls |-> {UrlAa, UrlBare}, expiresIn |-> {0}, draws |-> OneDraw]

Next ==
  \/ Shorten(1, EnvSpec)
  \/ Redirect(1, EnvSpec)
  \/ Stats(1, EnvSpec)
  \/ Health(1, EnvSpec)
  \/ \E t \in TaskSlots : Task(t, EnvSpec)

Spec == Init /\ [][Next]_vars

\* Overlapping ShortenURL requests.
EnvRace ==
  [seq |-> FALSE, pairs |-> FALSE, cache |-> Reliable, db |-> Reliable,
   urls |-> {UrlAa, UrlBB}, expiresIn |-> {0}, draws |-> RandomDraws]

NextRace ==
  \E p \in Procs :
    /\ \A q \in Procs : q < p => req[q].pc /= "idle" \/ req[p].pc /= "idle"
    /\ Shorten(p, EnvRace)

SpecRace == Init /\ [][NextRace]_vars

\* One request at a time, each admitted when the previous one and its
\* goroutine have finished.
EnvSeq ==
  [seq |-> TRUE, pairs |-> TRUE, cache |-> Reliable, db |-> Reliable,
   urls |-> {UrlAa, UrlBB, UrlBare, UrlOpaque}, expiresIn |-> {0},
   draws |-> RandomDraws]

NextSeq ==
  \/ Shorten(1, EnvSeq)
  \/ Redirect(1, EnvSeq)
  \/ Stats(1, EnvSeq)
  \/ Health(1, EnvSeq)
  \/ \E t \in TaskSlots : Task(t, EnvSeq)

SpecSeq == Init /\ [][NextSeq]_vars

\* One request at a time, the clock advancing between requests.
EnvClock ==
  [seq |-> TRUE, pairs |-> FALSE, cache |-> Reliable, db |-> Reliable,
   urls |-> {UrlAa}, expiresIn |-> {-1, 0, 1}, draws |-> OneDraw]

NextClock ==
  \/ Shorten(1, EnvClock)
  \/ Redirect(1, EnvClock)
  \/ Stats(1, EnvClock)
  \/ Health(1, EnvClock)
  \/ \E t \in TaskSlots : Task(t, EnvClock)
  \/ \E delta \in {StatsCacheTTL, Day} : Tick(delta)

SpecClock == Init /\ [][NextClock]_vars

\* One request at a time, any cache command possibly failing.
EnvFault ==
  [seq |-> TRUE, pairs |-> FALSE, cache |-> Unreliable, db |-> Reliable,
   urls |-> {UrlAa, UrlBB}, expiresIn |-> {0}, draws |-> OneDraw]

NextFault ==
  \/ Shorten(1, EnvFault)
  \/ Redirect(1, EnvFault)
  \/ Stats(1, EnvFault)
  \/ Health(1, EnvFault)
  \/ \E t \in TaskSlots : Task(t, EnvFault)

SpecFault == Init /\ [][NextFault]_vars

\* Redirects overlapping their own and earlier redirects' goroutines.
EnvAsync ==
  [seq |-> FALSE, pairs |-> FALSE, cache |-> Reliable, db |-> Reliable,
   urls |-> {UrlAa}, expiresIn |-> {0}, draws |-> OneDraw]

NextAsync ==
  \/ Shorten(1, EnvAsync)
  \/ Redirect(1, EnvAsync)
  \/ \E t \in TaskSlots : Task(t, EnvAsync)

SpecAsync == Init /\ [][NextAsync]_vars


\* One request at a time, any cache or database command possibly failing,
\* the probes of HealthCheck included.
EnvProbe ==
  [seq |-> TRUE, pairs |-> FALSE, cache |-> Unreliable, db |-> Unreliable,
   urls |-> {UrlAa}, expiresIn |-> {0}, draws |-> OneDraw]

NextProbe ==
  \/ Shorten(1, EnvProbe)
  \/ Redirect(1, EnvProbe)
  \/ Stats(1, EnvProbe)
  \/ Health(1, EnvProbe)
  \/ \E t \in TaskSlots : Task(t, EnvProbe)

SpecProbe == Init /\ [][NextProbe]_vars


\* Creations and redirects one at a time, each admitted when the goroutine of
\* the redirect before it has ended, with GetURLStats requests arriving at
\* any moment, also while that goroutine runs.
EnvTurn ==
  [seq |-> TRUE, pairs |-> FALSE, cache |-> Reliable, db |-> Reliable,
   urls |-> {UrlAa}, expiresIn |-> {0, 1}, draws |-> OneDraw]

NextOverlap ==
  \/ Shorten(1, EnvTurn)
  \/ Redirect(1, EnvTurn)
  \/ Stats(1, EnvAsync)
  \/ \E t \in TaskSlots : Task(t, EnvTurn)

SpecOverlap == Init /\ [][NextOverlap]_vars


\* One request at a time, for two URLs that get a short code each.
EnvPair ==
  [seq |-> TRUE, pairs |-> FALSE, cache |-> Reliable, db |-> Reliable,
   urls |-> {UrlAa, UrlAb}, expiresIn |-> {0}, draws |-> RandomDraws]

NextPair ==
  \/ Shorten(1, EnvPair)
  \/ Redirect(1, EnvPair)
  \/ Stats(1, EnvPair)
  \/ \E t \in TaskSlots : Task(t, EnvPair)

SpecPair == Init /\ [][NextPair]_vars


\* Creations and redirects one at a time, the commands of the
\* click-accounting goroutine possibly failing, cache and database alike,
\* while the handlers' own commands succeed.  The Go scheduler runs every
\* runnable goroutine and every command returns, with a result or an error:
\* a goroutine that can take a step eventually takes it.
EnvLive ==
  [seq |-> FALSE, pairs |-> FALSE, cache |-> Unreliable, db |-> Unreliable,
   urls |-> {UrlAa}, expiresIn |-> {0}, draws |-> OneDraw]

NextLive ==
  \/ Shorten(1, EnvTurn)
  \/ Redirect(1, EnvTurn)
  \/ \E t \in TaskSlots : Task(t, EnvLive)

SpecLive ==
  /\ Init
  /\ [][NextLive]_vars
  /\ \A t \in TaskSlots : WF_vars(Task(t, EnvLive))


\* Creations one at a time for two URLs.  The random source gives the first
\* and the last index of the lower-case letters, of the upper-case letters
\* and of the digits, each repeated six times, and the draws of RandomDraws.
GenDraws ==
  { [i \in 1..shortCodeLength |-> v] : v \in {0, 25, 26, 51, 52, 61} }
    \cup RandomDraws

EnvGen ==
  [seq |-> TRUE, pairs |-> FALSE, cache |-> Reliable, db |-> Reliable,
   urls |-> {UrlAa, UrlAb}, expiresIn |-> {0}, draws |-> GenDraws]

NextGen == Shorten(1, EnvGen)

SpecGen == Init /\ [][NextGen]_vars



\* One request at a time with the clock advancing between requests.  The
\* DEL of the click counter, the last command of the click-accounting
\* goroutine, may fail, so that a click counter can outlive its goroutine.
EnvTtl ==
  [seq |-> TRUE, pairs |-> FALSE, cache |-> Reliable, db |-> Reliable,
   urls |-> {UrlAa}, expiresIn |-> {0}, draws |-> OneDraw]

NextTtl ==
  \/ Shorten(1, EnvTtl)
  \/ Redirect(1, EnvTtl)
  \/ Stats(1, EnvTtl)
  \/ \E t \in TaskSlots :
       \/ TaskIncrement(t, TRUE)
       \/ TaskUpdate(t, TRUE)
       \/ \E ok \in Unreliable : (ok \/ tasks[t].i = 3) /\ TaskInvalidate(t, ok)
  \/ \E delta \in {StatsCacheTTL, DefaultCacheTTL} : Tick(delta)

SpecTtl == Init /\ [][NextTtl]_vars



\* Requests one at a time for two URLs with the same hash, with or without an
\* expiry of one day, while the clock passes expiries and cache times-to-live.
EnvExpiry ==
  [seq |-> TRUE, pairs |-> FALSE, cache |-> Reliable, db |-> Reliable,
   urls |-> {UrlAa, UrlBB}, expiresIn |-> {0, 1}, draws |-> RandomDraws]

NextExpiry ==
  \/ Shorten(1, EnvExpiry)
  \/ Redirect(1, EnvExpiry)
  \/ \E t \in TaskSlots : Task(t, EnvExpiry)
  \/ Tick(Day + StatsCacheTTL)

SpecExpiry == Init /\ [][NextExpiry]_vars


\* ------------------------------------------------------------------ claims

Prev == hist[1]
Last == hist[2]

\* A ShortenURL response that carries a short code.
Shortened(r) == r.op = "shorten" /\ r.status \in {200, 201}

RowsWithCode(shortCode) == { r \in Rows(urls) : r.ShortCode = shortCode }
RowsWithURL(url) == { r \in Rows(urls) : r.OriginalURL = url }

\* The rows of the code that the table held when response r was sent.
RowsThen(r, shortCode) ==
  { urls[i] : i \in { j \in 1..r.rows : urls[j].ShortCode = shortCode } }

\* C1: a ShortenURL of U that returned a short code, followed immediately by
\* a RedirectURL of that code, is answered with a redirect to U.
C1_CreateThenRedirectReturnsUrl ==
  ( /\ Shortened(Prev)
    /\ Last.op = "redirect"
    /\ Last.shortCode = Prev.body.ShortCode )
  => ( Last.status = 301 /\ Last.body.Location = Prev.url )

\* C2: two ShortenURL requests for U in immediate succession return the
\* same short code, the second inserts no row, and the table then holds
\* exactly one row for U.
C2_CreateTwiceOneRow ==
  ( /\ Quiescent
    /\ Shortened(Prev)
    /\ Last.op = "shorten"
    /\ Last.url = Prev.url )
  => ( /\ Last.status = 200
       /\ Last.body.ShortCode = Prev.body.ShortCode
       /\ Last.rows = Prev.rows
       /\ Cardinality(RowsWithURL(Last.url)) = 1 )

\* C3: RedirectURL answers 404 when the table has no row for the code (and
\* only then), and 410 when the row's ExpiresAt is before the time of the
\* request, whether the record came from the cache or from the table.
C3_NotFoundAndExpired ==
  Last.op = "redirect" =>
    /\ RowsThen(Last, Last.shortCode) = {} <=> Last.status = 404
    /\ \A r \in RowsThen(Last, Last.shortCode) :
         (r.ExpiresAt /= NoTime /\ r.ExpiresAt < Last.at) => Last.status = 410

\* C3 witness: a 410 answered from a cached record.
C3_Witness ==
  /\ Last.op = "redirect"
  /\ Last.status = 410
  /\ Last.hit
  /\ \E r \in RowsThen(Last, Last.shortCode) : r.ExpiresAt < Last.at

\* C4: with requests handled one after another, GetURLStats reports as many
\* clicks as redirects of the code have been answered since its creation.
C4_SequentialClicksCounted ==
  (Quiescent /\ Last.op = "stats" /\ Last.status = 200)
  => Last.body.ClickCount = served[Last.shortCode]

\* C4 witness: statistics read after two redirects of the code.
C4_Witness ==
  /\ Quiescent
  /\ Last.op = "stats"
  /\ Last.status = 200
  /\ served[Last.shortCode] = 2
  /\ Last.body.ClickCount = 2

\* C5: no row's ClickCount is negative or ever decreases.
C5_ClickCountNeverDecreases ==
  [][ \A i \in 1..Len(urls) :
        /\ urls[i].ClickCount >= 0
        /\ urls'[i].ClickCount >= urls[i].ClickCount ]_vars

C7_ResponseBeforeTaskCompletes ==
  \A p \in Procs : req[p].pc = "redirectRespond" => ~req[p].early

\* C7 amended: the handler never waits for its goroutine: wherever the
\* goroutine stands, finished or not, the redirect can be sent, and the
\* redirect sent is to the OriginalURL of the row of that code.
C7_ResponseNeverWaits ==
  /\ \A p \in Procs : req[p].pc = "redirectRespond" => ENABLED RedirectRespond(p)
  /\ (Last.op = "redirect" /\ Last.status = 301) =>
       \E r \in RowsThen(Last, Last.shortCode) :
         r.OriginalURL = Last.body.Location

\* C7 witness: a handler about to send the redirect whose goroutine has
\* already finished.
C7_Witness ==
  \E p \in Procs :
    /\ req[p].pc = "redirectRespond"
    /\ req[p].early
    /\ \A t \in TaskSlots : tasks[t].pc = "free"

\* C8: a row created with ExpiresIn = d > 0 at time t has ExpiresAt = t + d
\* days and one created with d <= 0 has none; RedirectURL of its code answers
\* 410 exactly at the times after ExpiresAt and redirects at all others.
C8_ExpiryInDays ==
  /\ (Last.op = "shorten" /\ Last.status = 201) =>
       /\ Last.body.ExpiresAt =
            IF Last.expiresIn >= 1 THEN Last.at + Last.expiresIn * 1440 ELSE NoTime
       /\ \E r \in RowsWithCode(Last.body.ShortCode) :
            r.CreatedAt = Last.at /\ r.ExpiresAt = Last.body.ExpiresAt
  /\ Last.op = "redirect" =>
       \A r \in RowsThen(Last, Last.shortCode) :
         IF r.ExpiresAt /= NoTime /\ Last.at > r.ExpiresAt
           THEN Last.status = 410
           ELSE Last.status = 301 /\ Last.body.Location = r.OriginalURL

\* C8 witness: created with ExpiresIn = 1, redirected two days later.
C8_Witness ==
  /\ Last.op = "redirect"
  /\ Last.status = 410
  /\ \E r \in RowsThen(Last, Last.shortCode) :
       r.ExpiresAt = r.CreatedAt + 1440 /\ Last.at = r.CreatedAt + 2880

\* Where each handler goes when its cache read misses.
MissTarget ==
  [pc \in {"shortenIndex", "shortenMapping", "redirectMapping", "statsCached",
           "statsClicks"} |->
     CASE pc = "shortenIndex" -> "shortenFind"
       [] pc = "shortenMapping" -> "shortenFind"
       [] pc = "redirectMapping" -> "redirectFind"
       [] pc = "statsCached" -> "statsFind"
       [] pc = "statsClicks" -> "statsStore"]

\* A request none of whose cache reads returned a value, because the key was
\* missing or because the read failed, is answered as the store-only
\* reference model answers it.
NoHitMatchesStoreOnly ==
  (Last.op \in {"shorten", "redirect", "stats"} /\ ~Last.hit) =>
    (Last.status = Last.expect.status /\ Last.body = Last.expect.body)

\* A cache read that fails on a key that is there sends no response and
\* changes nothing but the handler's position, which becomes the one a
\* miss leads to.
FailedReadStepsLikeMiss ==
  \A p \in Procs :
    (req[p].pc \in DOMAIN MissTarget /\ ~req[p].masked /\ req'[p].masked) =>
      /\ req'[p] = [req[p] EXCEPT !.pc = MissTarget[req[p].pc], !.masked = TRUE]
      /\ UNCHANGED <<redis, urls, tasks, hist>>

\* C9: with the cache available, a failed cache read is handled exactly like
\* a miss and a failed write is dropped: the failure never shows in a
\* response, and the request is answered as it is on a miss.
C9_CacheFailureIsAMiss ==
  []NoHitMatchesStoreOnly /\ [][FailedReadStepsLikeMiss]_vars

\* C9 witness: a successful response of a request whose cache read failed
\* on a key that was there.
C9_Witness ==
  /\ Last.op \in {"shorten", "redirect", "stats"}
  /\ Last.masked
  /\ ~Last.hit
  /\ Last.status \in {200, 301}

\* C10: no two rows of the table have the same ShortCode.
C10_ShortCodeUnique ==
  \A i, j \in 1..Len(urls) : urls[i].ShortCode = urls[j].ShortCode => i = j

\* C10 witness: two overlapping ShortenURL requests generated the same code;
\* one has inserted its row and the other is about to try.
C10_Witness ==
  \E p, q \in Procs :
    /\ req[p].pc = "shortenCacheNew"
    /\ req[q].pc = "shortenInsert"
    /\ req[p].urlRecord.ShortCode = req[q].urlRecord.ShortCode

\* C11: when the code ShortenURL generated is already in the table, the
\* insert fails and that same step ends the request with 500: no other code
\* is generated, the table and the cache are left as they were.
C11_CollisionFailsOnce ==
  [][ \A p \in Procs :
        (req[p].pc = "shortenInsert" /\ req'[p].pc /= "shortenInsert"
         /\ UniqueViolation(urls, req[p].urlRecord)) =>
          /\ req'[p] = Idle
          /\ hist'[2].op = "shorten"
          /\ hist'[2].url = req[p].url
          /\ hist'[2].status = 500
          /\ urls' = urls
          /\ redis' = redis ]_vars

\* C11 witness: a 500 for a URL that has no row, while the code it drew
\* belongs to the row of another URL and the cache holds no index entry
\* for it.
C11_Witness ==
  /\ RedisClient
  /\ Last.op = "shorten"
  /\ Last.status = 500
  /\ RowsWithURL(Last.url) = {}
  /\ Len(urls) = 1
  /\ ~RedisLive(OriginalURLKey(hashString(Last.url)))

\* C12: every url:mapping: entry of the cache is a copy of the row of that
\* short code, with the row's ID, OriginalURL and ExpiresAt, and every
\* url:original: entry names the short code of a row: the table alone holds
\* every mapping the cache holds.
C12_CacheBackedByStore ==
  \A k \in DOMAIN redis :
    /\ k[1] = "url:mapping:" =>
         \E r \in Rows(urls) :
           /\ r.ShortCode = k[2]
           /\ UnmarshalURL(redis[k].val).ShortCode = k[2]
           /\ UnmarshalURL(redis[k].val).ID = r.ID
           /\ UnmarshalURL(redis[k].val).OriginalURL = r.OriginalURL
           /\ UnmarshalURL(redis[k].val).ExpiresAt = r.ExpiresAt
    /\ k[1] = "url:original:" =>
         \E r \in Rows(urls) : r.ShortCode = redis[k].val

\* C12 witness: a cached record of a row that expires, older than the row (its
\* ClickCount is behind), next to an index entry for the row's URL.
C12_Witness ==
  \E r \in Rows(urls) :
    /\ r.ExpiresAt /= NoTime
    /\ URLMappingKey(r.ShortCode) \in DOMAIN redis
    /\ UnmarshalURL(redis[URLMappingKey(r.ShortCode)].val).ClickCount < r.ClickCount
    /\ OriginalURLKey(hashString(r.OriginalURL)) \in DOMAIN redis

\* C13: every click-accounting goroutine that was started ends, whether its
\* commands succeed or fail and whether or not its handler has returned.
C13_TaskTerminates ==
  \A t \in TaskSlots : (tasks[t].pc /= "free") ~> (tasks[t].pc = "free")

\* C13 witness: a goroutine still running after its handler has returned,
\* its update of click_count having failed.
C13_Witness ==
  \E t \in TaskSlots :
    /\ tasks[t].pc = "invalidate"
    /\ tasks[t].answered
    /\ req[tasks[t].owner].pc = "idle"
    /\ \A r \in Rows(urls) : r.ClickCount = 0

\* C14: a GetURLStats request that arrives when every click-accounting
\* goroutine has ended reports the ClickCount the row has at that time.
C14_StatsFreshAfterTask ==
  [][ \A p \in Procs :
        (req[p].op = "stats" /\ req[p].quiet /\ req'[p].pc = "idle"
         /\ hist'[2].status = 200) =>
          \E r \in Rows(urls) :
            /\ r.ShortCode = req[p].shortCode
            /\ hist'[2].body.ClickCount = r.ClickCount ]_vars

\* With the client nil the keyspace is empty, the cache is reported
\* unhealthy, every read is a miss and every write, increment and
\* invalidation leaves the keyspace as it is.
NilClientIsInert ==
  ~RedisClient =>
    /\ redis = <<>>
    /\ ~IsRedisHealthy(TRUE)
    /\ \A c \in Codes, ok \in BOOLEAN :
         /\ GetURLMapping(c, ok) = Miss
         /\ GetURLStats(c, ok) = Miss
         /\ GetClickCount(c, ok) = Miss
         /\ IncrementClickCount(c, ok) = redis
         /\ \A i \in 1..3 : InvalidateCache(c, i, ok) = redis
         /\ \A r \in Rows(urls) :
              /\ CacheURLMapping(c, r, ok) = redis
              /\ CacheURLStats(c, StatsResponse(r.OriginalURL, c, r.ClickCount,
                                                r.CreatedAt, r.ExpiresAt), ok) = redis
         /\ \A u \in ValidUrls :
              /\ GetShortCodeForOriginalURL(u, ok) = Miss
              /\ CacheOriginalURLMapping(u, c, ok) = redis

\* C15: when InitRedis has set the client to nil the service runs all the
\* same; from then on every cache read is a miss, every write, increment and
\* invalidation is a no-op, and the client is never set again.
C15_UnavailableForGood ==
  []NilClientIsInert /\ [][~RedisClient => ~RedisClient']_vars

\* C15 witness: with the client nil, a URL was created, redirected (its
\* goroutine has run) and its statistics were served with the click counted.
C15_Witness ==
  /\ ~RedisClient
  /\ Quiescent
  /\ Last.op = "stats"
  /\ Last.status = 200
  /\ Last.body.ClickCount = 2
  /\ served[Last.shortCode] = 2

\* C16: HealthCheck answers "unhealthy" with 503 exactly when the database
\* probe fails, whatever the cache; "degraded" with 200 exactly when the
\* database probe succeeds and the cache client is nil or its ping fails;
\* "healthy" with 200 exactly when both probes succeed.
C16_HealthStatus ==
  Last.op = "health" =>
    /\ Last.body.status \in {"unhealthy", "degraded", "healthy"}
    /\ Last.body.status = "unhealthy" <=> ~Last.body.database
    /\ Last.body.status = "degraded" <=> (Last.body.database /\ ~Last.body.cache)
    /\ Last.body.status = "healthy" <=> (Last.body.database /\ Last.body.cache)
    /\ Last.status = (IF Last.body.status = "unhealthy" THEN 503 ELSE 200)
    /\ ~RedisClient => ~Last.body.cache

\* C16 witness: the database probe failed while the cache answered its ping.
C16_Witness ==
  /\ Last.op = "health"
  /\ Last.status = 503
  /\ Last.body.status = "unhealthy"
  /\ Last.body.cache

\* No handler goes past validation with a URL that lacks a scheme or a host.
InvalidUrlStopsAtValidation ==
  \A p \in Procs :
    (req[p].op = "shorten" /\ req[p].pc /= "idle") => req[p].url \in ValidUrls

\* The step that answers a ShortenURL for such a URL answers 400 from an idle
\* slot and leaves the table, the cache and the goroutines as they were.
InvalidUrlRejectedAtOnce ==
  (hist' /= hist /\ hist'[2].op = "shorten" /\ hist'[2].url \notin ValidUrls) =>
    /\ hist'[2].status = 400
    /\ hist'[2].body = ErrorBody("Invalid URL format")
    /\ \E p \in Procs : req[p].pc = "idle" /\ req' = req
    /\ UNCHANGED <<urls, redis, tasks>>

\* C17: ShortenURL with a URL that lacks a scheme or a host answers 400 and
\* changes nothing: the request ends at validation, before any cache
\* command, code generation or insert.
C17_InvalidUrlChangesNothing ==
  []InvalidUrlStopsAtValidation /\ [][InvalidUrlRejectedAtOnce]_vars

\* C17 witness: a URL with a scheme but no host was refused while the table
\* and the cache hold another URL's mapping.
C17_Witness ==
  /\ Last.op = "shorten"
  /\ Last.url = UrlOpaque
  /\ Last.status = 400
  /\ Len(urls) = 1
  /\ redis /= <<>>

\* What the stats-cache-miss path of GetURLStats does, step by step: the
\* record is the row of the code; the click count is the value of the
\* url:clicks: entry when there is one and the row's ClickCount when there is
\* none; the response carries the record's fields with that count, and the
\* same snapshot is stored under url:stats: for StatsCacheTTL.
StatsMissPath ==
  \A p \in Procs :
    /\ (req[p].pc = "statsFind" /\ req'[p].pc = "statsClicks") =>
         /\ req'[p].urlRecord \in Rows(urls)
         /\ req'[p].urlRecord.ShortCode = req[p].shortCode
    /\ (req[p].pc = "statsClicks" /\ req'[p].pc = "statsStore") =>
         req'[p].clickCount =
           IF RedisClient /\ RedisLive(ClicksKey(req[p].shortCode))
             THEN redis[ClicksKey(req[p].shortCode)].val
             ELSE req[p].urlRecord.ClickCount
    /\ (req[p].pc = "statsStore" /\ req'[p].pc = "idle") =>
         /\ hist'[2].status = 200
         /\ hist'[2].body =
              [OriginalURL |-> req[p].urlRecord.OriginalURL,
               ShortCode |-> req[p].urlRecord.ShortCode,
               ClickCount |-> req[p].clickCount,
               CreatedAt |-> req[p].urlRecord.CreatedAt,
               ExpiresAt |-> req[p].urlRecord.ExpiresAt]
         /\ UNCHANGED urls
         /\ IF RedisClient
              THEN /\ URLStatsKey(req[p].shortCode) \in DOMAIN redis'
                   /\ redis'[URLStatsKey(req[p].shortCode)].exp = now + 5
                   /\ UnmarshalStats(redis'[URLStatsKey(req[p].shortCode)].val)
                        = hist'[2].body
                   /\ \A k \in DOMAIN redis' \ {URLStatsKey(req[p].shortCode)} :
                        k \in DOMAIN redis /\ redis'[k] = redis[k]
              ELSE redis' = redis

\* C18: on the stats-cache-miss path GetURLStats reports the cache click
\* counter when that entry is present and the row's ClickCount otherwise,
\* stores the snapshot in the stats cache and returns it.
C18_StatsPrefersClickCounter ==
  [][StatsMissPath]_vars

\* C18 witness: statistics that report the click counter's 1 while the row
\* still has 0, stored in the stats cache as reported.
C18_Witness ==
  /\ Last.op = "stats"
  /\ Last.status = 200
  /\ Last.body.ClickCount = 1
  /\ \E r \in Rows(urls) : r.ShortCode = Last.shortCode /\ r.ClickCount = 0
  /\ URLStatsKey(Last.shortCode) \in DOMAIN redis
  /\ UnmarshalStats(redis[URLStatsKey(Last.shortCode)].val) = Last.body

\* The key that the i-th iteration of InvalidateCache's loop deletes.
InvalidatedKey(shortCode, i) ==
  CASE i = 1 -> <<"url:mapping:", shortCode>>
    [] i = 2 -> <<"url:stats:", shortCode>>
    [] i = 3 -> <<"url:clicks:", shortCode>>

\* Each iteration removes its key and nothing else, and leaves the keyspace
\* as it is when the key is absent; the loop ends after the third.
InvalidateStep ==
  \A t \in TaskSlots :
    (tasks[t].pc = "invalidate"
     /\ (tasks'[t].i /= tasks[t].i \/ tasks'[t].pc /= "invalidate")) =>
      /\ tasks[t].i \in 1..3
      /\ IF tasks[t].i < 3
           THEN tasks'[t] = [tasks[t] EXCEPT !.i = @ + 1]
           ELSE tasks'[t].pc = "free"
      /\ DOMAIN redis' =
           IF RedisClient
             THEN DOMAIN redis \ {InvalidatedKey(tasks[t].shortCode, tasks[t].i)}
             ELSE DOMAIN redis
      /\ \A k \in DOMAIN redis' : redis'[k] = redis[k]
      /\ InvalidatedKey(tasks[t].shortCode, tasks[t].i) \notin DOMAIN redis
           => redis' = redis

\* Once the goroutine of a redirect has ended, none of the three entries of
\* its code is left.
InvalidatedAfterTask ==
  (Quiescent /\ Last.op = "redirect" /\ Last.status = 301) =>
    \A i \in 1..3 : InvalidatedKey(Last.shortCode, i) \notin DOMAIN redis

\* C19: InvalidateCache removes the mapping, stats and click-counter entries
\* of its code and nothing else, and calling it when entries are absent
\* changes nothing.
C19_InvalidateExact ==
  []InvalidatedAfterTask /\ [][InvalidateStep]_vars

\* C19 witness: after the invalidation for one code, the index entry and the
\* mapping entry of another code are still there.
C19_Witness ==
  /\ Quiescent
  /\ Last.op = "redirect"
  /\ Last.status = 301
  /\ \A i \in 1..3 : InvalidatedKey(Last.shortCode, i) \notin DOMAIN redis
  /\ \E c \in Codes \ {Last.shortCode} : RedisLive(URLMappingKey(c))
  /\ \E u \in ValidUrls : RedisLive(OriginalURLKey(hashString(u)))

\* Rows of one URL have different short codes.
DuplicateRowsDifferInCode ==
  \A i, j \in 1..Len(urls) :
    (i /= j /\ urls[i].OriginalURL = urls[j].OriginalURL)
      => urls[i].ShortCode /= urls[j].ShortCode

\* A ShortenURL request during which no other request was in flight inserts a
\* row only for a URL that has none.
AloneInsertsNoDuplicate ==
  \A p \in Procs :
    (req[p].pc = "shortenInsert" /\ req[p].quiet /\ req'[p].pc = "shortenCacheNew") =>
      /\ RowsWithURL(req[p].url) = {}
      /\ Len(urls') = Len(urls) + 1

\* C20: ShortenURL requests for one URL that overlap can each insert a row,
\* the rows having different short codes; a request that overlaps no other
\* never adds a row for a URL that has one.
C20_DuplicatesOnlyWhenOverlapping ==
  []DuplicateRowsDifferInCode /\ [][AloneInsertsNoDuplicate]_vars

\* C20 witness: two overlapping requests for one URL both missed the cache
\* and the table and left two rows for it, with different short codes.
C20_Witness ==
  /\ Quiescent
  /\ Len(urls) = 2
  /\ urls[1].OriginalURL = urls[2].OriginalURL
  /\ urls[1].ShortCode /= urls[2].ShortCode

\* The update of a click-accounting goroutine writes the ClickCount of the
\* record its handler read, plus one, to the row of that record, whatever the
\* row holds by then, and leaves the other rows alone.
UpdateWritesSnapshotPlusOne ==
  \A t \in TaskSlots :
    (tasks[t].pc = "update" /\ tasks'[t].pc = "invalidate") =>
      /\ Len(urls') = Len(urls)
      /\ \A i \in 1..Len(urls) :
           urls'[i].ClickCount =
             IF urls[i].ID = tasks[t].urlRecord.ID
               THEN tasks[t].urlRecord.ClickCount + 1
               ELSE urls[i].ClickCount

\* Once every request and goroutine has ended a row never counts more clicks
\* than redirects of its code were answered.
ClicksAtMostServed ==
  Quiescent => \A r \in Rows(urls) : r.ClickCount <= served[r.ShortCode]

\* C21: redirects of one code that overlap can leave the row's ClickCount
\* below the number of redirects answered: each goroutine writes its own
\* snapshot + 1 without reading the row again, so the count falls short and
\* never runs ahead.
C21_OverlapUndercounts ==
  []ClicksAtMostServed /\ [][UpdateWritesSnapshotPlusOne]_vars

\* C21 witness: two redirects of the code were answered, their goroutines
\* have ended, and the row counts one click.
C21_Witness ==
  /\ Quiescent
  /\ \E r \in Rows(urls) : served[r.ShortCode] = 2 /\ r.ClickCount = 1


\* The alphabet of the generator is the 62 letters and digits.
AlphabetIsAlnum ==
  /\ Len(charset) = 62
  /\ Cardinality({ charset[i] : i \in 1..Len(charset) }) = 62
  /\ { charset[i] : i \in 1..Len(charset) } = { c \in 0..127 : IsAlnum(c) }

\* A generated code has six characters, each a letter or a digit.
WellFormedCode(code) ==
  /\ Len(code) = 6
  /\ \A i \in 1..Len(code) : IsAlnum(code[i])

\* Every code a handler holds after generation, and every code stored in a
\* row, is well formed.
GeneratedCodesWellFormed ==
  /\ AlphabetIsAlnum
  /\ \A p \in Procs :
       req[p].pc \in {"shortenInsert", "shortenCacheNew", "shortenIndexNew"}
         => WellFormedCode(req[p].shortCode)
  /\ \A r \in Rows(urls) : WellFormedCode(r.ShortCode)

\* The code generated is the one the random draw gives, whether or not a row
\* already has it: generation reads neither the table nor the cache.
GenerationIgnoresTable ==
  \A p \in Procs :
    (req[p].pc = "shortenFind" /\ req'[p].pc = "shortenInsert") =>
      /\ req'[p].shortCode = [i \in 1..6 |-> charset[req[p].draw[i] + 1]]
      /\ req'[p].urlRecord.ShortCode = req'[p].shortCode
      /\ UNCHANGED <<urls, redis>>

\* C22: every code of the generator has exactly 6 characters from the
\* alphabet [A-Za-z0-9], and the generator does not check the code against
\* the codes in use.
C22_GeneratedCodeShape ==
  []GeneratedCodesWellFormed /\ [][GenerationIgnoresTable]_vars

\* C22 witness: the generator has returned "999999" for a second URL while
\* the row of the first has that code.
C22_Witness ==
  \E p \in Procs :
    /\ req[p].pc = "shortenInsert"
    /\ req[p].shortCode = <<57, 57, 57, 57, 57, 57>>
    /\ UniqueViolation(urls, req[p].urlRecord)


\* The time-to-live of each kind of key; the click counter has none.
TtlOf(key) ==
  CASE key[1] = "url:mapping:"  -> 24 * 60
    [] key[1] = "url:original:" -> 24 * 60
    [] key[1] = "url:stats:"    -> 5
    [] key[1] = "url:clicks:"   -> NoExpiry

\* Every entry of the keyspace is within its time-to-live: an entry whose
\* time has elapsed is not there any more.
EntriesWithinTtl ==
  \A k \in DOMAIN redis :
    IF TtlOf(k) = NoExpiry
      THEN redis[k].exp = NoExpiry
      ELSE now < redis[k].exp /\ redis[k].exp <= now + TtlOf(k)

\* A step that writes an entry gives it the time-to-live of its kind, counted
\* from the time of the write.
WritesSetTtl ==
  \A k \in DOMAIN redis' :
    (k \notin DOMAIN redis \/ redis'[k] /= redis[k]) =>
      redis'[k].exp = IF TtlOf(k) = NoExpiry THEN NoExpiry ELSE now + TtlOf(k)

\* GetURLStats answers from the stats cache only with a snapshot written
\* less than 5 minutes before.
StatsHitIsRecent ==
  \A p \in Procs :
    (req[p].pc = "statsCached" /\ req'[p].pc = "idle") =>
      /\ URLStatsKey(req[p].shortCode) \in DOMAIN redis
      /\ now - (redis[URLStatsKey(req[p].shortCode)].exp - 5) < 5
      /\ hist'[2].body = UnmarshalStats(redis[URLStatsKey(req[p].shortCode)].val)

\* A click counter leaves the keyspace only in the third DEL of an
\* InvalidateCache for its code; the passing of time does not remove it.
ClicksRemovedOnlyByInvalidation ==
  \A k \in DOMAIN redis :
    (k[1] = "url:clicks:" /\ k \notin DOMAIN redis') =>
      \E t \in TaskSlots :
        /\ tasks[t].pc = "invalidate"
        /\ tasks[t].i = 3
        /\ tasks[t].shortCode = k[2]
        /\ tasks'[t].pc = "free"

\* C23: url:mapping: and url:original: entries are gone 24 hours after they
\* were last written and url:stats: entries 5 minutes after, so GetURLStats
\* never answers with a cached snapshot older than 5 minutes; url:clicks:
\* entries have no time-to-live and only invalidation removes them.
C23_CacheTtls ==
  /\ []EntriesWithinTtl
  /\ [][WritesSetTtl /\ StatsHitIsRecent /\ ClicksRemovedOnlyByInvalidation]_vars

\* C23 witness: a day after the redirect whose goroutine failed to delete
\* its click counter, the counter is still there while the mapping, index and
\* stats entries written before are gone.
C23_Witness ==
  /\ now >= 24 * 60
  /\ Quiescent
  /\ Len(urls) = 1
  /\ DOMAIN redis = {ClicksKey(urls[1].ShortCode)}
  /\ Last.op = "stats"
  /\ Last.status = 200
  /\ Last.at = 0


\* The goroutine starts with the short code and the record its handler holds
\* after the lookup.
TaskStartsFromLookup ==
  \A t \in TaskSlots :
    (tasks[t].pc = "free" /\ tasks'[t].pc /= "free") =>
      /\ tasks'[t].pc = "incr"
      /\ req'[tasks'[t].owner].pc = "redirectRespond"
      /\ tasks'[t].shortCode = req'[tasks'[t].owner].shortCode
      /\ tasks'[t].urlRecord = req'[tasks'[t].owner].urlRecord

\* The increment comes first: it adds one to the click counter or, failing,
\* changes nothing; the update follows either way.
TaskIncrementStep ==
  \A t \in TaskSlots :
    (tasks[t].pc = "incr" /\ tasks'[t].pc /= "incr") =>
      /\ tasks'[t] = [tasks[t] EXCEPT !.pc = "update"]
      /\ UNCHANGED urls
      /\ \/ redis' = redis
         \/ /\ RedisClient
            /\ redis' = RedisIncr(<<"url:clicks:", tasks[t].shortCode>>)

\* The update comes second: it sets the row of the snapshot to the snapshot's
\* ClickCount + 1 or, failing, changes nothing; the invalidation follows
\* either way.
TaskUpdateStep ==
  \A t \in TaskSlots :
    (tasks[t].pc = "update" /\ tasks'[t].pc /= "update") =>
      /\ tasks'[t] = [tasks[t] EXCEPT !.pc = "invalidate"]
      /\ UNCHANGED redis
      /\ \/ urls' = urls
         \/ /\ Len(urls') = Len(urls)
            /\ \A i \in 1..Len(urls) :
                 urls'[i] =
                   IF urls[i].ID = tasks[t].urlRecord.ID
                     THEN [urls[i] EXCEPT !.ClickCount = tasks[t].urlRecord.ClickCount + 1,
                                          !.UpdatedAt = now]
                     ELSE urls[i]

\* The invalidation comes last: each DEL removes its key or, failing, changes
\* nothing; the next DEL follows either way and the goroutine ends after the
\* third.
TaskInvalidateStep ==
  \A t \in TaskSlots :
    (tasks[t].pc = "invalidate"
     /\ (tasks'[t].i /= tasks[t].i \/ tasks'[t].pc /= "invalidate")) =>
      /\ IF tasks[t].i < 3
           THEN tasks'[t] = [tasks[t] EXCEPT !.i = @ + 1]
           ELSE tasks'[t].pc = "free"
      /\ UNCHANGED urls
      /\ \/ redis' = redis
         \/ /\ RedisClient
            /\ redis' = RedisDel(InvalidatedKey(tasks[t].shortCode, tasks[t].i))

\* No step of a goroutine sends or alters a response, and the redirect, when
\* it is sent, is to the OriginalURL the handler looked up.
TaskLeavesResponseAlone ==
  /\ (\E t \in TaskSlots : tasks[t].pc \notin {"free"} /\ tasks'[t].pc /= tasks[t].pc)
       => hist' = hist
  /\ \A p \in Procs :
       (req[p].pc = "redirectRespond" /\ req'[p].pc = "idle") =>
         /\ hist'[2].status = 301
         /\ hist'[2].body = [Location |-> req[p].urlRecord.OriginalURL]
         /\ UNCHANGED <<urls, redis>>

\* C24: the click-accounting goroutine increments the click counter, then
\* sets the row's ClickCount to the snapshot's + 1 without reading the row,
\* then invalidates the cache entries of the code; a step that fails is
\* followed by the next all the same, and none changes the redirect response.
C24_TaskOrder ==
  [][ /\ TaskStartsFromLookup
      /\ TaskIncrementStep
      /\ TaskUpdateStep
      /\ TaskInvalidateStep
      /\ TaskLeavesResponseAlone ]_vars

\* C24 witness: the redirect was answered and its goroutine has ended with
\* the increment done and every later command failed: the row counts no
\* click, and the mapping and the click counter are still cached.
C24_Witness ==
  /\ Quiescent
  /\ Last.op = "redirect"
  /\ Last.status = 301
  /\ Last.body.Location = UrlAa
  /\ served[Last.shortCode] = 1
  /\ \A r \in Rows(urls) : r.ClickCount = 0
  /\ RedisLive(ClicksKey(Last.shortCode))
  /\ RedisLive(URLMappingKey(Last.shortCode))


\* The handler of slot p ends its request with an error response.
EndsWithError(p) ==
  req'[p].pc = "idle" /\ hist' /= hist /\ hist'[2].status >= 400

\* C25: a failed database command in ShortenURL, in the lookup of RedirectURL
\* or in the lookup of GetURLStats ends the request with an error response:
\* a lookup that fails on a row that is there is not taken for an absent row
\* and followed by an insert or a success, and a failed insert is answered
\* with an error.
C25_StoreFailureIsAnError ==
  [][ \A p \in Procs :
        /\ (req[p].pc = "shortenFind" /\ req'[p].pc /= "shortenFind"
            /\ RowsWithURL(req[p].url) /= {}) =>
             (req'[p].pc = "shortenCacheExisting" \/ EndsWithError(p))
        /\ (req[p].pc = "shortenInsert" /\ req'[p].pc /= "shortenInsert"
            /\ urls' = urls) => EndsWithError(p)
        /\ (req[p].pc = "redirectFind" /\ req'[p].pc /= "redirectFind"
            /\ RowsWithCode(req[p].shortCode) /= {}) =>
             (req'[p].pc = "redirectCache" \/ EndsWithError(p))
        /\ (req[p].pc = "statsFind" /\ req'[p].pc /= "statsFind"
            /\ RowsWithCode(req[p].shortCode) /= {}) =>
             (req'[p].pc = "statsClicks" \/ EndsWithError(p)) ]_vars


\* Every url:mapping: entry agrees with the row of its short code on ID,
\* OriginalURL and ShortCode.
MappingAgreesWithRow ==
  \A k \in DOMAIN redis :
    k[1] = "url:mapping:" =>
      \E r \in Rows(urls) :
        /\ r.ShortCode = k[2]
        /\ UnmarshalURL(redis[k].val).ShortCode = r.ShortCode
        /\ UnmarshalURL(redis[k].val).OriginalURL = r.OriginalURL
        /\ UnmarshalURL(redis[k].val).ID = r.ID

\* The index entry that a ShortenURL of `url` reads was written for another
\* URL with the same hash.
Colliding(url) ==
  /\ RedisClient
  /\ RedisLive(OriginalURLKey(hashString(url)))
  /\ \E r \in Rows(urls) :
       /\ r.ShortCode = redis[OriginalURLKey(hashString(url))].val
       /\ r.OriginalURL /= url

\* A ShortenURL that reads a colliding index entry only reads: the index
\* lookup takes the other URL's code, and the mapping lookup either answers
\* 200 with the other URL's mapping or, missing, goes on to the table.
\* Neither step changes the table or the cache.
CollisionOnlyReads ==
  \A p \in Procs :
    /\ (req[p].pc = "shortenIndex" /\ req'[p].pc /= "shortenIndex"
        /\ Colliding(req[p].url)) =>
         /\ req'[p].pc = "shortenMapping"
         /\ req'[p].shortCode = redis[OriginalURLKey(hashString(req[p].url))].val
         /\ UNCHANGED <<urls, redis>>
    /\ (req[p].pc = "shortenMapping" /\ req'[p].pc /= "shortenMapping") =>
         /\ UNCHANGED <<urls, redis>>
         /\ \/ req'[p].pc = "shortenFind"
            \/ /\ req'[p].pc = "idle"
               /\ hist'[2].status = 200
               /\ hist'[2].body.ShortCode = req[p].shortCode
               /\ \E r \in Rows(urls) :
                    /\ r.ShortCode = hist'[2].body.ShortCode
                    /\ r.OriginalURL = hist'[2].body.OriginalURL

\* The table is searched by the URL itself: the row found is a row of the
\* request's URL, and a row inserted is a row for the request's URL.
StoreKeyedByExactUrl ==
  \A p \in Procs :
    /\ (req[p].pc = "shortenFind" /\ req'[p].pc = "shortenCacheExisting") =>
         /\ req'[p].urlRecord.OriginalURL = req[p].url
         /\ req'[p].urlRecord \in Rows(urls)
    /\ (req[p].pc = "shortenFind" /\ req'[p].pc = "shortenInsert") =>
         RowsWithURL(req[p].url) = {}
    /\ (req[p].pc = "shortenInsert" /\ req'[p].pc = "shortenCacheNew") =>
         /\ Len(urls') = Len(urls) + 1
         /\ urls'[Len(urls')].OriginalURL = req[p].url
         /\ \A i \in 1..Len(urls) : urls'[i] = urls[i]

\* C26: two URLs with the same hashString share an index entry; the
\* collision makes ShortenURL answer "already exists" with the other URL's
\* mapping, or miss the cache, and nothing else: no row is changed, inserted
\* or removed by it, and every url:mapping: entry still agrees with its row.
C26_CollisionIsHarmlessToStore ==
  []MappingAgreesWithRow /\ [][CollisionOnlyReads /\ StoreKeyedByExactUrl]_vars

\* C26 witness: ShortenURL of "a://Aa" was answered 200 from the cache with
\* the mapping of "a://BB"; the table has the row of "a://BB" only.
C26_Witness ==
  /\ Last.op = "shorten"
  /\ Last.url = UrlAa
  /\ Last.status = 200
  /\ Last.hit
  /\ Last.body.OriginalURL = UrlBB
  /\ Len(urls) = 1
  /\ urls[1].OriginalURL = UrlBB


\* The index entry of `url` can be read.
IndexHit(url) == RedisClient /\ RedisLive(OriginalURLKey(hashString(url)))

\* The mapping entry of `shortCode` can be read.
MappingHit(shortCode) == RedisClient /\ RedisLive(URLMappingKey(shortCode))

\* The lookups of ShortenURL, in order: after validation the index; on an
\* index hit the mapping of the code it gave, on a miss the table; on a
\* mapping hit the answer 200 with the cached mapping, on a miss the table,
\* searched by the request's URL.  The table is reached from a cache lookup
\* only, and only when that lookup missed.
ShortenLookupOrder ==
  \A p \in Procs :
    /\ (req[p].pc = "idle" /\ req'[p].op = "shorten" /\ req'[p].pc /= "idle") =>
         req'[p].pc = "shortenIndex"
    /\ (req[p].pc = "shortenIndex" /\ req'[p].pc /= "shortenIndex") =>
         IF IndexHit(req[p].url)
           THEN /\ req'[p].pc = "shortenMapping"
                /\ req'[p].shortCode = redis[OriginalURLKey(hashString(req[p].url))].val
           ELSE req'[p].pc = "shortenFind"
    /\ (req[p].pc = "shortenMapping" /\ req'[p].pc /= "shortenMapping") =>
         IF MappingHit(req[p].shortCode)
           THEN /\ req'[p].pc = "idle"
                /\ hist'[2].status = 200
                /\ hist'[2].body =
                     [OriginalURL |-> UnmarshalURL(redis[URLMappingKey(req[p].shortCode)].val).OriginalURL,
                      ShortCode |-> UnmarshalURL(redis[URLMappingKey(req[p].shortCode)].val).ShortCode,
                      ExpiresAt |-> UnmarshalURL(redis[URLMappingKey(req[p].shortCode)].val).ExpiresAt]
           ELSE /\ req'[p].pc = "shortenFind"
                /\ req'[p].url = req[p].url
    /\ (req[p].pc /= "shortenFind" /\ req'[p].pc = "shortenFind") =>
         \/ req[p].pc = "shortenIndex" /\ ~IndexHit(req[p].url)
         \/ req[p].pc = "shortenMapping" /\ ~MappingHit(req[p].shortCode)
    /\ (req[p].pc = "shortenFind" /\ req'[p].pc /= "shortenFind") =>
         IF RowsWithURL(req[p].url) /= {}
           THEN /\ req'[p].pc = "shortenCacheExisting"
                /\ req'[p].urlRecord \in RowsWithURL(req[p].url)
           ELSE req'[p].pc = "shortenInsert"

\* A ShortenURL answered 200 with no row read from the table had both its
\* cache lookups hit.
CachedAnswerNeedsBothHits ==
  \A p \in Procs :
    (req[p].op = "shorten" /\ req'[p].pc = "idle" /\ hist' /= hist
     /\ hist'[2].status = 200 /\ req[p].pc /= "shortenIndexExisting") =>
      /\ req[p].pc = "shortenMapping"
      /\ IndexHit(req[p].url)
      /\ MappingHit(req[p].shortCode)

\* C27: ShortenURL answers "already exists" from the cache only when the
\* index lookup and the mapping lookup both hit; with an index hit and the
\* mapping missing it goes on to the table lookup by the URL itself; the
\* cache lookup always comes before the table lookup.
C27_CacheBeforeStore ==
  [][ShortenLookupOrder /\ CachedAnswerNeedsBothHits]_vars

\* C27 witness: the index entry gave a code whose mapping entry had been
\* invalidated; the handler is about to search the table, where the row is.
C27_Witness ==
  \E p \in Procs :
    /\ req[p].pc = "shortenFind"
    /\ req[p].hit
    /\ IndexHit(req[p].url)
    /\ ~MappingHit(req[p].shortCode)
    /\ RowsWithURL(req[p].url) /= {}


\* When a ShortenURL that overlapped nothing answers 200 or 201 with the
\* client set, the keyspace it leaves has the mapping entry of the code
\* returned, a copy of a row of that code, and the index entry of the
\* request's URL, which names that code.
SuccessLeavesBothEntries ==
  \A p \in Procs :
    (req[p].op = "shorten" /\ req'[p].pc = "idle" /\ hist' /= hist
     /\ hist'[2].status \in {200, 201} /\ RedisClient) =>
      LET code == hist'[2].body.ShortCode
          mkey == <<"url:mapping:", code>>
          okey == <<"url:original:", hashString(req[p].url)>>
      IN /\ mkey \in DOMAIN redis'
         /\ now < redis'[mkey].exp
         /\ UnmarshalURL(redis'[mkey].val) \in Rows(urls)
         /\ UnmarshalURL(redis'[mkey].val).ShortCode = code
         /\ okey \in DOMAIN redis'
         /\ now < redis'[okey].exp
         /\ redis'[okey].val = code

\* C28: with the cache available, no cache write failing and no other
\* operation in flight, a ShortenURL that answers with success leaves the
\* mapping entry of the returned code and the index entry of the requested
\* URL naming that code, whether the row was inserted or found in the table.
C28_SuccessPopulatesCache ==
  [][SuccessLeavesBothEntries]_vars

\* C28 witness: after a redirect's goroutine had invalidated the mapping, a
\* ShortenURL found the row in the table and answered 200; the mapping is
\* cached again.
C28_Witness ==
  /\ RedisClient
  /\ Quiescent
  /\ Last.op = "shorten"
  /\ Last.status = 200
  /\ served[Last.body.ShortCode] >= 1
  /\ RedisLive(URLMappingKey(Last.body.ShortCode))
  /\ RedisLive(OriginalURLKey(hashString(Last.url)))
  /\ redis[OriginalURLKey(hashString(Last.url))].val = Last.body.ShortCode


\* What follows the lookup of RedirectURL in the same step: 410 for a record
\* that has expired, else the goroutine is started with the record and the
\* handler goes on to redirect.
AfterLookup(p, record) ==
  IF record.ExpiresAt /= NoTime /\ record.ExpiresAt < now
    THEN req'[p].pc = "idle" /\ hist'[2].status = 410 /\ tasks' = tasks
    ELSE /\ req'[p].pc = "redirectRespond"
         /\ req'[p].urlRecord = record
         /\ \E t \in TaskSlots :
              /\ tasks[t].pc = "free"
              /\ tasks'[t].pc = "incr"
              /\ tasks'[t].urlRecord = record

\* The lookups of RedirectURL, in order: the mapping entry first; on a hit
\* the cached record is used and the table is not read; on a miss the table
\* is searched by short code; a row found is written to the mapping entry,
\* expired or not, and then checked for expiry; when no row is found the
\* answer is 404 and nothing is written.
RedirectLookupOrder ==
  \A p \in Procs :
    /\ (req[p].pc = "idle" /\ req'[p].op = "redirect") =>
         req'[p].pc = "redirectMapping"
    /\ (req[p].pc = "redirectMapping" /\ req'[p].pc /= "redirectMapping") =>
         /\ UNCHANGED <<urls, redis>>
         /\ IF MappingHit(req[p].shortCode)
              THEN AfterLookup(p, UnmarshalURL(redis[URLMappingKey(req[p].shortCode)].val))
              ELSE req'[p].pc = "redirectFind"
    /\ (req[p].pc /= "redirectFind" /\ req'[p].pc = "redirectFind") =>
         req[p].pc = "redirectMapping" /\ ~MappingHit(req[p].shortCode)
    /\ (req[p].pc = "redirectFind" /\ req'[p].pc /= "redirectFind") =>
         /\ UNCHANGED <<urls, redis>>
         /\ IF RowsWithCode(req[p].shortCode) = {}
              THEN req'[p].pc = "idle" /\ hist'[2].status = 404
              ELSE /\ req'[p].pc = "redirectCache"
                   /\ req'[p].urlRecord \in RowsWithCode(req[p].shortCode)
    /\ (req[p].pc = "redirectCache" /\ req'[p].pc /= "redirectCache") =>
         /\ UNCHANGED urls
         /\ AfterLookup(p, req[p].urlRecord)
         /\ IF RedisClient
              THEN /\ DOMAIN redis' = DOMAIN redis \cup {URLMappingKey(req[p].shortCode)}
                   /\ UnmarshalURL(redis'[URLMappingKey(req[p].shortCode)].val)
                        = req[p].urlRecord
                   /\ redis'[URLMappingKey(req[p].shortCode)].exp = now + 24 * 60
                   /\ \A k \in DOMAIN redis : k /= URLMappingKey(req[p].shortCode)
                        => redis'[k] = redis[k]
              ELSE redis' = redis

\* C29: RedirectURL reads the mapping entry first; on a hit it uses the
\* cached record and does not read the table; on a miss it searches the
\* table by short code and caches the row it finds before it checks the
\* expiry, so an expired row is cached too; when there is no row it answers
\* 404 and writes nothing to the cache.
C29_RedirectCacheAside ==
  [][RedirectLookupOrder]_vars

\* C29 witness: a redirect that missed the cache was answered 410, and the
\* expired record it read from the table is now in the cache.
C29_Witness ==
  /\ Last.op = "redirect"
  /\ Last.status = 410
  /\ ~Last.hit
  /\ MappingHit(Last.shortCode)
  /\ HasExpired(UnmarshalURL(redis[URLMappingKey(Last.shortCode)].val))


\* The stats entry of `shortCode` can be read.
StatsHit(shortCode) == RedisClient /\ RedisLive(URLStatsKey(shortCode))

\* On a stats-cache hit GetURLStats answers 200 with the cached snapshot in
\* that same step: the table and the click counter are not read and nothing
\* is written.  On a miss it goes on to the table.
StatsHitReturnsSnapshot ==
  \A p \in Procs :
    (req[p].pc = "statsCached" /\ req'[p].pc /= "statsCached") =>
      /\ UNCHANGED <<urls, redis>>
      /\ IF StatsHit(req[p].shortCode)
           THEN /\ req'[p].pc = "idle"
                /\ hist'[2].status = 200
                /\ hist'[2].body = UnmarshalStats(redis[URLStatsKey(req[p].shortCode)].val)
           ELSE req'[p].pc = "statsFind"

\* When the table has no row of the code GetURLStats answers 404 and writes
\* nothing.
StatsNotFoundWritesNothing ==
  \A p \in Procs :
    (req[p].pc = "statsFind" /\ req'[p].pc /= "statsFind"
     /\ RowsWithCode(req[p].shortCode) = {}) =>
      /\ req'[p].pc = "idle"
      /\ hist'[2].status = 404
      /\ hist'[2].body = ErrorBody("Short URL not found")
      /\ UNCHANGED <<urls, redis>>

\* No step of GetURLStats changes the table, a mapping entry, an index entry
\* or a click counter, or starts a goroutine: the only key it may write is
\* the stats entry of its code.
StatsFrame ==
  \A p \in Procs :
    ((req[p].op = "stats" \/ req'[p].op = "stats") /\ req'[p].pc /= req[p].pc) =>
      /\ UNCHANGED <<urls, tasks>>
      /\ \A k \in DOMAIN redis \cup DOMAIN redis' :
           (k /= <<"url:stats:", (IF req[p].op = "stats" THEN req[p] ELSE req'[p]).shortCode>>)
             => (k \in DOMAIN redis /\ k \in DOMAIN redis' /\ redis'[k] = redis[k])

\* C30: on a stats-cache hit GetURLStats returns the cached snapshot as it
\* is, without reading the table or the click counter; on a miss with no row
\* of the code it answers 404 and writes no cache entry; it never writes a
\* mapping entry, an index entry or the table.
C30_StatsFrame ==
  [][StatsHitReturnsSnapshot /\ StatsNotFoundWritesNothing /\ StatsFrame]_vars

\* C30 witness: statistics answered from the stats cache with a click count
\* that the row no longer has, while the mapping of the code is not cached.
C30_Witness ==
  /\ Quiescent
  /\ Last.op = "stats"
  /\ Last.status = 200
  /\ Last.hit
  /\ StatsHit(Last.shortCode)
  /\ Last.body = UnmarshalStats(redis[URLStatsKey(Last.shortCode)].val)
  /\ \E r \in Rows(urls) :
       r.ShortCode = Last.shortCode /\ r.ClickCount /= Last.body.ClickCount
  /\ ~MappingHit(Last.shortCode)


\* A step keeps every row, in place, with its ID, OriginalURL, ShortCode,
\* CreatedAt and ExpiresAt.
RowsKeepIdentity ==
  /\ Len(urls') >= Len(urls)
  /\ \A i \in 1..Len(urls) :
       /\ urls'[i].ID = urls[i].ID
       /\ urls'[i].OriginalURL = urls[i].OriginalURL
       /\ urls'[i].ShortCode = urls[i].ShortCode
       /\ urls'[i].CreatedAt = urls[i].CreatedAt
       /\ urls'[i].ExpiresAt = urls[i].ExpiresAt

\* A row changes only in the update step of a click-accounting goroutine that
\* holds a record of that row.
RowWrittenOnlyByTask ==
  \A i \in 1..Len(urls) :
    urls'[i] /= urls[i] =>
      \E t \in TaskSlots :
        /\ tasks[t].pc = "update"
        /\ tasks'[t].pc = "invalidate"
        /\ tasks[t].urlRecord.ID = urls[i].ID
        /\ urls'[i].ClickCount = tasks[t].urlRecord.ClickCount + 1
        /\ req' = req
        /\ hist' = hist

\* A click-accounting goroutine belongs to a redirect that succeeds: its
\* record had not expired when it was started, and its handler is about to
\* answer 301 or has answered.
TaskOfSuccessfulRedirect ==
  \A t \in TaskSlots :
    tasks[t].pc /= "free" =>
      /\ tasks[t].urlRecord.ID >= 1
      /\ tasks[t].urlRecord.ShortCode = tasks[t].shortCode
      /\ \/ tasks[t].answered
         \/ /\ req[tasks[t].owner].pc = "redirectRespond"
            /\ req[tasks[t].owner].urlRecord = tasks[t].urlRecord

\* C31: a row, once inserted, keeps its ID, OriginalURL, ShortCode and
\* ExpiresAt and is never removed; its ClickCount is written only by the
\* click-accounting goroutine of a redirect that succeeds, never by
\* ShortenURL, GetURLStats, HealthCheck or a redirect answered 404 or 410.
C31_RowsImmutableButClicks ==
  []TaskOfSuccessfulRedirect /\ [][RowsKeepIdentity /\ RowWrittenOnlyByTask]_vars

\* C31 witness: a row that expires, counted one click before its expiry; a
\* later redirect of its code was answered 410 and the row is as it was.
C31_Witness ==
  /\ Quiescent
  /\ Last.op = "redirect"
  /\ Last.status = 410
  /\ Len(urls) = 1
  /\ urls[1].ClickCount = 1
  /\ urls[1].ExpiresAt /= NoTime
  /\ urls[1].UpdatedAt < Last.at


\* The click counters of the keyspace.
ClickCounters(keyspace) ==
  [k \in { k \in DOMAIN keyspace : k[1] = "url:clicks:" } |-> keyspace[k]]

\* Every step of RedirectURL other than the one that goes on to the 301
\* starts no goroutine and leaves the table, the click counters and every
\* existing cache entry but the mapping it may write.
FailingRedirectStartsNothing ==
  \A p \in Procs :
    ((req[p].op = "redirect" \/ req'[p].op = "redirect")
     /\ req'[p].pc /= req[p].pc /\ req'[p].pc /= "redirectRespond"
     /\ req[p].pc /= "redirectRespond") =>
      /\ tasks' = tasks
      /\ served' = served
      /\ urls' = urls
      /\ ClickCounters(redis') = ClickCounters(redis)
      /\ DOMAIN redis \subseteq DOMAIN redis'

\* A redirect answered 404 or 410, requests being handled one at a time,
\* leaves no goroutine running.
FailedRedirectLeavesNoTask ==
  \A p \in Procs :
    (req[p].op = "redirect" /\ req'[p].pc = "idle" /\ hist' /= hist
     /\ hist'[2].status \in {404, 410}) =>
      /\ \A t \in TaskSlots : tasks'[t].pc = "free"
      /\ \A t \in TaskSlots : tasks[t].pc = "free"
      /\ req[p].pc \in {"redirectMapping", "redirectFind", "redirectCache"}

\* C32: a RedirectURL answered 404 or 410 starts no click-accounting
\* goroutine: the click counter is not incremented, no ClickCount changes and
\* no cache entry is invalidated.
C32_FailedRedirectCountsNothing ==
  [][FailingRedirectStartsNothing /\ FailedRedirectLeavesNoTask]_vars

\* C32 witness: a redirect of an expired row answered 410 from the table; the
\* row counts no click, there is no click counter, and the entries of the
\* code that were cached are still there.
C32_Witness ==
  /\ Quiescent
  /\ Last.op = "redirect"
  /\ Last.status = 410
  /\ ~Last.hit
  /\ \A r \in Rows(urls) : r.ClickCount = 0
  /\ served[Last.shortCode] = 0
  /\ ClickCounters(redis) = <<>>
  /\ MappingHit(Last.shortCode)


\* C33: once every request and every click-accounting goroutine has ended,
\* a row whose code was redirected N >= 1 times counts at least 1 and at
\* most N clicks (rows are created with 0): clicks can be lost, never
\* counted twice.
C33_ClicksBetweenOneAndN ==
  Quiescent =>
    \A r \in Rows(urls) :
      /\ served[r.ShortCode] = 0 => r.ClickCount = 0
      /\ served[r.ShortCode] >= 1 =>
           (1 <= r.ClickCount /\ r.ClickCount <= served[r.ShortCode])

\* C33 witness: three redirects of the code were answered, every goroutine
\* has ended, and the row counts two clicks.
C33_Witness ==
  /\ Quiescent
  /\ \E r \in Rows(urls) : served[r.ShortCode] = 3 /\ r.ClickCount = 2


\* C34: on the stats-cache-miss path the click count GetURLStats reports is
\* never lower than the ClickCount of the row it read in that request, also
\* while a click-accounting goroutine is between its increment and its
\* invalidation.
C34_StatsNotBelowRow ==
  [][ \A p \in Procs :
        (req[p].pc = "statsClicks" /\ req'[p].pc = "statsStore") =>
          req'[p].clickCount >= req[p].urlRecord.ClickCount ]_vars


\* The click-accounting goroutines of `shortCode` that have been started and
\* have not ended.
TasksInFlight(shortCode) ==
  { t \in TaskSlots : tasks[t].pc /= "free" /\ tasks[t].shortCode = shortCode }

\* C35: with no DEL failing, a code has a click counter only while a
\* click-accounting goroutine of the code is in flight, and the counter is
\* never larger than the number of those goroutines.
C35_CounterBoundedByTasks ==
  \A c \in Codes :
    /\ TasksInFlight(c) = {} => ClicksKey(c) \notin DOMAIN redis
    /\ ClicksKey(c) \in DOMAIN redis =>
         /\ redis[ClicksKey(c)].val >= 1
         /\ redis[ClicksKey(c)].val <= Cardinality(TasksInFlight(c))

\* C35 witness: two goroutines of one code have both incremented the counter
\* and neither has deleted it.
C35_Witness ==
  \E c \in Codes :
    /\ Cardinality(TasksInFlight(c)) = 2
    /\ ClicksKey(c) \in DOMAIN redis
    /\ redis[ClicksKey(c)].val = 2



\* C36: whenever no request and no click-accounting goroutine is in flight,
\* every url:mapping: entry carries the ClickCount of the row of its short
\* code, whatever the interleaving of ShortenURL, RedirectURL and goroutines
\* that led there.
C36_QuiescentMappingHasRowClicks ==
  Quiescent =>
    \A k \in DOMAIN redis :
      k[1] = "url:mapping:" =>
        \A r \in Rows(urls) :
          r.ShortCode = k[2] =>
            UnmarshalURL(redis[k].val).ClickCount = r.ClickCount


\* What RedirectURL answers for a short code when the answer is computed from
\* the table and the clock alone.
StoreOutcome(shortCode) ==
  IF RowsWithCode(shortCode) = {} THEN "NotFound"
  ELSE IF \E r \in RowsWithCode(shortCode) : HasExpired(r) THEN "Expired"
  ELSE (CHOOSE r \in RowsWithCode(shortCode) : TRUE).OriginalURL

\* The handler of slot p settles the outcome of its RedirectURL in this step:
\* it answers 404 or 410, or it passes the expiry check and goes on to
\* redirect.
RedirectSettles(p) ==
  /\ req[p].op = "redirect"
  /\ req[p].pc \in {"redirectMapping", "redirectFind", "redirectCache"}
  /\ \/ req'[p].pc = "redirectRespond"
     \/ req'[p].pc = "idle" /\ hist' /= hist

\* The outcome settled by that step.
RedirectSettled(p) ==
  IF req'[p].pc = "redirectRespond" THEN req'[p].urlRecord.OriginalURL
  ELSE IF hist'[2].status = 410 THEN "Expired"
  ELSE IF hist'[2].status = 404 THEN "NotFound"
  ELSE "Error"

\* The redirect that is sent carries the OriginalURL of the row of the code.
RedirectSendsRowUrl(p) ==
  (req[p].pc = "redirectRespond" /\ req'[p].pc = "idle") =>
    /\ hist'[2].status = 301
    /\ RowsWithCode(req[p].shortCode) /= {}
    /\ \A r \in RowsWithCode(req[p].shortCode) :
         hist'[2].body = [Location |-> r.OriginalURL]

\* C37: with the table answering every query, the outcome of RedirectURL for
\* a code (redirect to the original URL, 410 or 404) is the one the row of the
\* code and the current time determine, whatever the cache holds and whether
\* the record was read from the cache or from the table.
C37_RedirectOutcomeFromStore ==
  [][ \A p \in Procs :
        /\ RedirectSettles(p) => RedirectSettled(p) = StoreOutcome(req[p].shortCode)
        /\ RedirectSendsRowUrl(p) ]_vars

\* A code that was redirected before its row expired is answered 410 from
\* the record still held in the cache.
C37_Witness ==
  /\ Last.op = "redirect" /\ Last.status = 410 /\ Last.hit
  /\ \E r \in RowsWithCode(Last.shortCode) : HasExpired(r)
  /\ URLMappingKey(Last.shortCode) \in DOMAIN redis
  /\ served[Last.shortCode] >= 1


\* The rows of a URL whose ExpiresAt is in the past.
ExpiredRowsOf(url) == { r \in RowsWithURL(url) : HasExpired(r) }

\* A ShortenURL of a URL that has an expired row inserts nothing and answers
\* 200 with the short code and the ExpiresAt of that row.
ShortenReturnsExpiredRow(p) ==
  (req[p].op = "shorten" /\ ExpiredRowsOf(req[p].url) /= {}) =>
    /\ urls' = urls
    /\ req'[p].pc = "idle" =>
         /\ hist'[2].status = 200
         /\ \E r \in ExpiredRowsOf(req[p].url) :
              hist'[2].body =
                ShortenResponse(r.OriginalURL, r.ShortCode, r.ExpiresAt)

\* The RedirectURL of a code whose row has expired, the code that such a
\* ShortenURL returned among them, answers 410.
ReturnedCodeIsGone(p) ==
  ( /\ RedirectSettles(p)
    /\ \E r \in RowsWithCode(req[p].shortCode) : HasExpired(r) )
  => RedirectSettled(p) = "Expired"

\* C38: a ShortenURL of a URL whose existing row has an ExpiresAt in the past
\* answers with that row as already existing, whatever expires_in_days the
\* new request carries, and inserts no row; the short code it returns then
\* redirects to 410.
C38_ExpiredMappingIsReturned ==
  [][\A p \in Procs :
       ShortenReturnsExpiredRow(p) /\ ReturnedCodeIsGone(p)]_vars

====
